---------------------------- MODULE MCSequential ----------------------------
(***************************************************************************)
(* Instances for TLC of the components that one caller uses at a time: the *)
(* linked list, the heap, the camera wrapper, the MAC address tool and the *)
(* configuration; and of the timers, which use the heap.  The delegates of *)
(* the timers, which are alike, are made in the order d1, d2, d3.          *)
(* They share nothing: component names the one of this behaviour, the      *)
(* others keep their first state.                                          *)
(***************************************************************************)
EXTENDS MCOneCaller, LocTimer

CONSTANTS d1, d2, d3

TimerDelegates == {d1, d2, d3}

VARIABLE component

allVars == <<component, vars, heapVars, cameraVars, macVars, cfgVars, timerVars>>

AllInit ==
  /\ component \in {"list", "heap", "camera", "mac", "config", "timer"}
  /\ Init
  /\ Heap!Init /\ (component # "heap" => \A d \in Ranked : rank[d] = 1)
  /\ Camera!Init
  /\ Mac!Init /\ (component # "mac" => misc = Factory)
  /\ Cfg!Init
  /\ TimerInit
  /\ component # "config" => board = Board(FALSE, "msm", "other", "other", FALSE) /\ files = [gps |-> <<>>, sap |-> <<>>]

MadeInOrder ==
  /\ delegate[d2] # "unborn" => delegate[d1] # "unborn"
  /\ delegate[d3] # "unborn" => delegate[d2] # "unborn"

AllNext ==
  \/ component = "list" /\ Next
     /\ UNCHANGED <<component, heapVars, cameraVars, macVars, cfgVars, timerVars>>
  \/ component = "heap" /\ Heap!Next
     /\ UNCHANGED <<component, vars, cameraVars, macVars, cfgVars, timerVars>>
  \/ component = "camera" /\ Camera!Next
     /\ UNCHANGED <<component, vars, heapVars, macVars, cfgVars, timerVars>>
  \/ component = "mac" /\ Mac!Next
     /\ UNCHANGED <<component, vars, heapVars, cameraVars, cfgVars, timerVars>>
  \/ component = "config" /\ Cfg!Next
     /\ UNCHANGED <<component, vars, heapVars, cameraVars, macVars, timerVars>>
  \/ component = "timer" /\ TimerNext /\ MadeInOrder'
     /\ UNCHANGED <<component, vars, heapVars, cameraVars, macVars, cfgVars>>

(* The timers' fairness, while the behaviour is theirs. *)
AllFairness ==
  /\ WF_timerVars(component = "timer" /\ Tick)
  /\ WF_timerVars(component = "timer" /\ PollTask)
  /\ WF_timerVars(component = "timer" /\ MsgTask)

AllSpec == AllInit /\ [][AllNext]_allVars /\ AllFairness

-----------------------------------------------------------------------------
(* Texts for LocCfg: a line for each way a value is read.                  *)
Line(name, text) == [name |-> name, text |-> text]
GpsLines == {Line("SUPL_VER", "1"), Line("SUPL_VER", "0x7"), Line("CAPABILITIES", "0x7"),
             Line("INTERMEDIATE_POS", "1"), Line("XTRA_SERVER_1", "1"),
             Line("XTRA_SERVER_1", "NULL"), Line("DEBUG_LEVEL", "1"), Line("other", "1")}
SapLines == {Line("GYRO_BIAS_RANDOM_WALK", "1"), Line("GYRO_BIAS_RANDOM_WALK", "0x7"),
             Line("SENSOR_USAGE", "1"), Line("DEBUG_LEVEL", "NULL")}
UpTo(lines, n) == UNION {[1..k -> lines] : k \in 0..n}

(* A file with every name of the table, in two orders, and the short ones. *)
All == <<Line("SUPL_VER", "1"), Line("CAPABILITIES", "0x7"), Line("INTERMEDIATE_POS", "1"),
         Line("XTRA_SERVER_1", "1")>>
AllGpsFiles == UpTo(GpsLines, 2) \cup {All, <<All[4], All[3], All[2], All[1]>>}
AllSapFiles == UpTo(SapLines, 1) \cup
  {<<Line("SENSOR_USAGE", "1"), Line("GYRO_BIAS_RANDOM_WALK", "0x7")>>,
   <<Line("GYRO_BIAS_RANDOM_WALK", "1"), Line("DEBUG_LEVEL", "NULL")>>}
(* An update with a line of each kind, and two lines of some that matter to each other. *)
Pairs == [1..2 -> {Line("SUPL_VER", "1"), Line("SUPL_VER", "0x7"),
                   Line("XTRA_SERVER_1", "NULL"), Line("other", "1")}]
AllTexts == UpTo(GpsLines, 1) \cup Pairs \cup {All, <<All[1], All[1], All[2], All[3]>>}
=============================================================================
