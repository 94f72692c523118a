---------------------------- MODULE MCOneCaller ----------------------------
(***************************************************************************)
(* The components that one caller uses at a time and whose theorems are    *)
(* proved together: the linked list, the heap, the camera wrapper, the MAC *)
(* address tool and the configuration.  They share nothing.                *)
(***************************************************************************)
EXTENDS LinkedList, Integers

CONSTANTS Ranked, Ranks,
          MaxOpens, Random, Factory, MaxBoots,
          GpsFiles, SapFiles, UpdateTexts, MaxUpdates

(* The heap compares numbers (LocRankable::ranks), and NULL is no object.  *)
ASSUME RanksAreNumbers == Ranks \subseteq Int /\ NULL \notin Ranked

(* What a file or a partition holds instead of an address is none. *)
ASSUME AddressesAreAddresses ==
  {"absent", "corrupt", "zero", "none"} \cap (Random \cup {Factory}) = {}

(* A line has a name and one of the texts that LocCfg tells apart. *)
ASSUME TextsAreTexts ==
  GpsFiles \cup SapFiles \cup UpdateTexts \subseteq
    Seq([name : STRING, text : {"1", "0x7", "NULL"}])

VARIABLES
  mData, mSize, rank, returned, inside,
  gVendorModule, device, vendor, zslState, previewRunning, activeFocusMove,
  focusing, asked, drifted, opens,
  misc, datamisc, persist, unsynced, place, ok, published, lost, boots,
  board, files, configAlreadyRead, conf, param_set, expected, cut, updates

(* A board of each kind that loc_get_target knows.                         *)
Board(qca1530, baseband, hw_platform, soc_id, mdm) ==
  [qca1530 |-> qca1530, baseband |-> baseband, hw_platform |-> hw_platform,
   soc_id |-> soc_id, mdm |-> mdm]
AllDevices ==
  {Board(TRUE, "msm", "mtp", "other", TRUE), Board(FALSE, "auto", "other", "other", FALSE),
   Board(FALSE, "apq", "other", "other", FALSE), Board(FALSE, "apq", "other", "mpq8064", FALSE),
   Board(FALSE, "msm", "mtp", "other", FALSE), Board(FALSE, "msm", "mtp", "other", TRUE),
   Board(FALSE, "msm", "other", "other", FALSE), Board(FALSE, "csfb", "other", "msm8930", FALSE),
   Board(FALSE, "csfb", "other", "other", FALSE)}

Heap == INSTANCE LocHeap WITH Datas <- Ranked
Camera == INSTANCE CameraWrapper
Mac == INSTANCE HwAddrs WITH pc <- place
Cfg == INSTANCE LocCfg WITH device <- board, Devices <- AllDevices

heapVars == <<mData, mSize, rank, returned, inside>>
cameraVars == <<gVendorModule, device, vendor, zslState, previewRunning, activeFocusMove,
                focusing, asked, drifted, opens>>
macVars == <<misc, datamisc, persist, unsynced, place, ok, published, lost, boots>>
cfgVars == <<board, files, configAlreadyRead, conf, param_set, expected, cut, updates>>
-----------------------------------------------------------------------------
(* The heap is a priority queue to its users: whatever it is given and     *)
(* asked for, a pop returns an object of the highest rank (LocHeap.cpp).   *)
HeapImplementsQueue == Heap!ImplementsQueue

(* The tree behind it stays a heap with correct sizes and loses nothing.   *)
HeapSafe == Heap!WellFormed /\ Heap!NothingLost

(* The preview runs in the mode of the vendor's parameters, and the        *)
(* application reads back the ISO mode it chose (CameraWrapper.cpp).       *)
VendorAgrees == Camera!VendorAgrees

(* The address that getmac leaves for the radio is valid and stays the     *)
(* same over boots.                                                        *)
AddressSafe == Mac!AddressSafe

(* Each value of the configuration is the one that the files and updates   *)
(* gave last (loc_cfg.cpp, loc_eng.cpp, loc.cpp).                          *)
ConfigFollowsTexts == Cfg!ConfigFollowsTexts
=============================================================================
