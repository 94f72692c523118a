------------------------------- MODULE HwAddrs -------------------------------
(***************************************************************************)
(* src/hwaddrs/getmac.c: at every boot, before the radios start, the tool  *)
(* makes sure that a file under /data/misc holds a hardware address.  It   *)
(* copies the one in /persist, which it makes from the misc partition, or  *)
(* at random if that has none.  Its four files are two such pairs that are *)
(* handled alike, one after the other; this is one pair.                   *)
(*                                                                         *)
(* A file is absent, corrupt (empty, cut off or anything else checkAddr    *)
(* refuses) or an address.  Nothing is synced: a crash may take back what  *)
(* was written since the boot.  Any system call may fail.                  *)
(***************************************************************************)
EXTENDS Naturals

CONSTANTS
  Random,      \* the addresses that random numbers can make
  Factory,     \* an address of the misc partition
  MaxBoots     \* the number of boots

VARIABLES
  misc,              \* the misc partition's address, or "zero"
  datamisc, persist, \* the files
  unsynced,          \* the files written since the boot
  pc,                \* "off", or where the tool is
  ok,                \* has nothing failed in this run
  published,         \* the first address a run left for the radio, or "none"
  lost,              \* was the address in persist lost after that
  boots

vars == <<misc, datamisc, persist, unsynced, pc, ok, published, lost, boots>>

Addrs == Random \cup {Factory}

Init ==
  /\ misc \in {"zero", Factory} /\ datamisc = "absent" /\ persist = "absent"
  /\ unsynced = {} /\ pc = "off" /\ ok = TRUE
  /\ published = "none" /\ lost = FALSE /\ boots = 0

boot ==
  /\ pc = "off" /\ boots < MaxBoots
  /\ boots' = boots + 1 /\ pc' = "checkData" /\ ok' = TRUE
  /\ UNCHANGED <<misc, datamisc, persist, unsynced, published, lost>>

\* What a check makes of a file: [valid, file, ok].  A file that is not valid is
\* removed, one that could not be read as well; the removal may fail.
checkAddr(f) ==
  {[valid |-> f \in Addrs, file |-> IF f \in Addrs THEN f ELSE "absent", ok |-> TRUE]}
  \cup (IF f = "absent" THEN {}
        ELSE {[valid |-> FALSE, file |-> g, ok |-> FALSE] : g \in {"absent", f}})

\* The run is over when the file is valid, or when everything was done.
Done(f) ==
  /\ pc' = "done"
  /\ published' = IF published = "none" /\ f \in Addrs THEN f ELSE published

checkData ==
  /\ pc = "checkData"
  /\ \E r \in checkAddr(datamisc) :
       /\ datamisc' = r.file /\ ok' = r.ok
       /\ IF r.valid THEN Done(r.file) ELSE pc' = "checkPersist" /\ UNCHANGED published
  /\ UNCHANGED <<misc, persist, unsynced, lost, boots>>

Lost(f) == lost' = (lost \/ (published # "none" /\ persist \in Addrs /\ f # persist))

checkPersist ==
  /\ pc = "checkPersist"
  /\ \E r \in checkAddr(persist) :
       /\ persist' = r.file /\ Lost(r.file)
       /\ ok' = (ok /\ r.ok)
       /\ pc' = IF r.valid THEN "open" ELSE "create"
  /\ UNCHANGED <<misc, datamisc, unsynced, published, boots>>

\* writeAddr creates its file, which must not exist ...
create ==
  /\ pc = "create"
  /\ \/ /\ persist = "absent"
        /\ persist' = "corrupt" /\ unsynced' = unsynced \cup {"persist"}
        /\ pc' = "write" /\ UNCHANGED ok
     \/ /\ ok' = FALSE /\ pc' = "open"
        /\ UNCHANGED <<persist, unsynced>>
  /\ UNCHANGED <<misc, datamisc, published, lost, boots>>

\* ... and writes an address; without one from misc, or when misc cannot be read,
\* a random one.  On a failure the file goes.
writeAddr ==
  /\ pc = "write" /\ pc' = "open"
  /\ \/ misc = Factory /\ persist' = Factory /\ UNCHANGED ok
     \/ misc = "zero" /\ persist' \in Random /\ UNCHANGED ok
     \/ persist' \in Random \cup {"absent", "corrupt"} /\ ok' = FALSE
  /\ UNCHANGED <<misc, datamisc, unsynced, published, lost, boots>>

\* copyAddr opens both files; the new one is removed if either could not be.
openBoth ==
  /\ pc = "open"
  /\ \/ /\ persist # "absent" /\ datamisc = "absent"
        /\ datamisc' = "corrupt" /\ unsynced' = unsynced \cup {"datamisc"}
        /\ pc' = "copy" /\ UNCHANGED <<ok, published>>
     \/ /\ ok' = FALSE /\ Done(datamisc)
        /\ UNCHANGED <<datamisc, unsynced>>
  /\ UNCHANGED <<misc, persist, lost, boots>>

\* Mutant: nobody looks at what write and close return.
copyAddr_unchecked ==
  /\ pc = "copy"
  /\ datamisc' \in {persist, "absent", "corrupt"}
  /\ Done(datamisc')
  /\ UNCHANGED <<misc, persist, unsynced, ok, lost, boots>>

copyAddr ==
  /\ pc = "copy"
  /\ \/ datamisc' = persist /\ UNCHANGED ok
     \/ datamisc' \in {"absent", "corrupt"} /\ ok' = FALSE
  /\ Done(datamisc')
  /\ UNCHANGED <<misc, persist, unsynced, lost, boots>>

\* The phone is shut down, or it crashes and unsynced files keep any part of
\* what was written to them.
shutdown ==
  /\ pc = "done" /\ pc' = "off" /\ unsynced' = {}
  /\ UNCHANGED <<misc, datamisc, persist, ok, published, lost, boots>>

Remains(name, f) ==
  IF name \in unsynced /\ f # "absent" THEN {f, "corrupt", "absent"} ELSE {f}

crash ==
  /\ pc # "off" /\ pc' = "off" /\ unsynced' = {}
  /\ datamisc' \in Remains("datamisc", datamisc)
  /\ persist' \in Remains("persist", persist)
  /\ Lost(persist')
  /\ UNCHANGED <<misc, ok, published, boots>>

\* A factory reset clears /data.
reset ==
  /\ pc = "off" /\ datamisc # "absent" /\ datamisc' = "absent"
  /\ UNCHANGED <<misc, persist, unsynced, pc, ok, published, lost, boots>>

Next == boot \/ checkData \/ checkPersist \/ create \/ writeAddr \/ openBoth \/ copyAddr
        \/ shutdown \/ crash \/ reset

Spec == Init /\ [][Next]_vars

-----------------------------------------------------------------------------
\* Files are absent, corrupt or addresses.
TypeOK ==
  /\ datamisc \in Addrs \cup {"absent", "corrupt"}
  /\ persist \in Addrs \cup {"absent", "corrupt"}
  /\ unsynced \subseteq {"datamisc", "persist"} /\ ok \in BOOLEAN /\ lost \in BOOLEAN

\* A run in which nothing fails leaves a valid address, whatever earlier runs,
\* their failures and crashes have left behind.
Repaired == pc = "done" /\ ok => datamisc \in Addrs

\* The radio's address never changes, over crashes and factory resets, unless the
\* file in persist was lost.
AddressKept == pc = "done" /\ ok /\ ~lost => datamisc = published

\* The address is well formed, valid after a good run and always the same.
AddressSafe == TypeOK /\ Repaired /\ AddressKept
=============================================================================
