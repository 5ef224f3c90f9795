----------------------- MODULE MCAutomationSchedule -------------------------
(* One request beside the loop, two or three ticks of the clock, two runs,  *)
(* one crash, and two crons: one of every time, and one of the times 1 and  *)
(* 4 only, which computeNextRunAt looks for two ticks ahead.               *)
EXTENDS AutomationSchedule

MCConfigs == {"always", "rare"}
MCNextSlot ==
  [c \in MCConfigs |-> [t \in 0..MaxTime |->
     CASE c = "always" -> t + 1
       [] c = "rare" /\ t = 0 -> 1
       [] c = "rare" /\ t = 1 -> Never
       [] OTHER -> 4]]
=============================================================================
