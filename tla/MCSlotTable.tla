----------------------------- MODULE MCSlotTable -----------------------------
(* SlotTable where no program interrupts another, and where one does.      *)
EXTENDS SlotTable

OneContext == {"cpu0"}
TwoContexts == {"cpu0", "cpu1"}
===============================================================================
