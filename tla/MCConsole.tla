-------------------------------- MODULE MCConsole --------------------------------
(***************************************************************************)
(* A small console: two timers of two bits, two DMA channels, two lines of *)
(* eight cycles of which one is visible.  The delays keep the order of the *)
(* code's: READ_OFFSET is shorter than the DMA's start delay, and that     *)
(* than the interrupt's.                                                   *)
(***************************************************************************)
EXTENDS Console

MCEvents == {HBlank, HBlankEnd, Irq, ImeLine} \cup TimerEvents \cup DmaEvents

MCControls ==
  [i \in TimerIds |->
     {c \in Control : c.irqEnable = (i = 0) /\ (c.cascade => i > 0) /\ (c.cascade => c.prescaler = 1)
                      /\ (~c.enabled => c.prescaler = 1 /\ ~c.cascade)}]

MCDmaControls ==
  {c \in [repeat : BOOLEAN, timing : Timings, irqEnable : BOOLEAN, enabled : BOOLEAN] :
     /\ c.irqEnable = (c.timing = "VBlank")
     /\ ~c.enabled => c.timing = "HBlank" /\ ~c.repeat
     /\ c.timing # "HBlank" => ~c.repeat}

MCPrograms ==
  {[does |-> {"timer control", "timer reload", "timer read"}, times |-> 3, until |-> 12],
   [does |-> {"dma"}, times |-> 2, until |-> 14],
   [does |-> {"dma", "timer control"}, times |-> 2, until |-> 8],
   [does |-> {"ie", "if", "ime", "dispstat", "timer control", "halt", "cpsr"}, times |-> 2, until |-> 12],
   [does |-> {"ie", "ime", "dispstat", "halt"}, times |-> 4, until |-> 12],
   [does |-> {"ie", "dispstat", "stop", "key"}, times |-> 4, until |-> 12],
   [does |-> {"ie", "halt", "key", "poke", "break"}, times |-> 2, until |-> 12],
   [does |-> {"ie", "stop", "key", "line", "save"}, times |-> 3, until |-> 6],
   [does |-> {"timer control", "break", "save"}, times |-> 1, until |-> 12],
   [does |-> {"dma", "line", "save"}, times |-> 1, until |-> 13]}

MCTimerFlag == [i \in TimerIds |-> "Timer"]
MCDmaFlag == [i \in Channels |-> "Dma"]
=================================================================================
