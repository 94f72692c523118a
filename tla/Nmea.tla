-------------------------------- MODULE Nmea --------------------------------
(***************************************************************************)
(* loc_eng_nmea.cpp and the two reports of loc_eng.cpp that call it, all   *)
(* on the message task.  A satellite report makes the sentences GPGSV and  *)
(* GLGSV, four satellites in each, and leaves behind which satellites were *)
(* used and how precise they are (dop) for the next position report, which *)
(* makes GPGSA, GNGSA, GPVTG, GPRMC and GPGGA of it.                       *)
(* A sentence is what it says of satellites and precision; numbers, times, *)
(* modes and checksums are left out, and so are the early returns when a   *)
(* sentence does not fit its buffer: all sentences here fit.  A satellite  *)
(* is the place it has in the list of the report, its kind is one of       *)
(* three.                                                                  *)
(***************************************************************************)
EXTENDS Naturals, Sequences, FiniteSets

CONSTANTS
  MaxSvs,      \* the number of satellites in view
  MaxReports   \* the number of satellite reports

VARIABLES
  view,                          \* the kinds of the satellites in view, in order
  gps_used_mask, glo_used_mask,  \* the used satellites, kept for a position
  dop,                           \* the report whose precision is kept, or 0
  usedFrom,                      \* the report that the masks come from, or 0
  sentences,                     \* the sentences of the last report
  reports

vars == <<view, gps_used_mask, glo_used_mask, dop, usedFrom, sentences, reports>>

Kinds == {"gps", "glo", "other"}
Masks == {{}, 1..3, 1..13}

Init ==
  /\ view \in UNION {[1..n -> Kinds] : n \in 0..MaxSvs}
  /\ gps_used_mask = {} /\ glo_used_mask = {} /\ dop = 0 /\ usedFrom = 0
  /\ sentences = <<>> /\ reports = 0

\* The n-th of the numbers in S, and the first n of them.
FirstOf(S, n) == {x \in S : Cardinality({y \in S : y < x}) < n}

-----------------------------------------------------------------------------
\* What a sentence lists that begins at the m-th satellite: the next four of kind k.
Listed(k, m) == FirstOf({i \in m..Len(view) : view[i] = k}, 4)

\* svNumber after it: behind the fourth, or behind the last satellite in view.
Behind(k, m) ==
  LET four == Listed(k, m)
  IN  IF Cardinality(four) < 4 THEN Len(view) + 1
      ELSE 1 + (CHOOSE i \in four : \A j \in four : j <= i)

\* svNumber at the beginning of the n-th sentence.
From(k) ==
  LET from[n \in 1..Len(view) + 1] == IF n = 1 THEN 1 ELSE Behind(k, from[n - 1])
  IN  from

\* The sentences of one kind: count/4 of them, rounded up, or a blank one.
Gsv(k) ==
  LET count == Cardinality({i \in DOMAIN view : view[i] = k})
      last  == (count + 3) \div 4
  IN  IF count = 0 THEN <<[kind |-> k, number |-> 1, of |-> 1, svs |-> {}]>>
      ELSE [n \in 1..last |-> [kind |-> k, number |-> n, of |-> last, svs |-> Listed(k, From(k)[n])]]

\* Mutant: a report without precision leaves that of an earlier one.
KeptDop_stale(has) == IF has THEN reports' ELSE dop

KeptDop(has) == IF has THEN reports' ELSE 0

loc_eng_nmea_generate_sv(gps, glo, has) ==
  /\ sentences' = Gsv("gps") \o Gsv("glo")
  /\ gps_used_mask' = gps /\ glo_used_mask' = glo
  /\ usedFrom' = IF gps \cup glo # {} THEN reports' ELSE 0
  /\ dop' = KeptDop(has)

\* LocEngReportSv::proc, of a session that is not muted.
ReportSv ==
  /\ reports < MaxReports /\ reports' = reports + 1
  /\ \E gps \in Masks, glo \in Masks, has \in BOOLEAN : loc_eng_nmea_generate_sv(gps, glo, has)
  /\ UNCHANGED view

-----------------------------------------------------------------------------
\* The precision of the position itself (QMI), the one that was kept (RPC), or none.
Precision(own) == IF own THEN "own" ELSE IF dop > 0 THEN "kept" ELSE "none"

Gsa(k, used, own) == [kind |-> k, svs |-> FirstOf(used, 12), dop |-> Precision(own)]

GPVTG == [kind |-> "vtg"]

GPRMC == [kind |-> "rmc"]

GPGGA(own) == [kind |-> "gga", dop |-> Precision(own), used |-> Cardinality(gps_used_mask)]

Blank == << [kind |-> "gpgsa", svs |-> {}, dop |-> "none"],
            [kind |-> "gngsa", svs |-> {}, dop |-> "none"],
            GPVTG, GPRMC, [kind |-> "gga", dop |-> "none", used |-> 0] >>

\* A final position uses up what was kept; a blank one only the precision.
loc_eng_nmea_generate_pos(own, generate_nmea) ==
  /\ sentences' = IF generate_nmea
                  THEN << Gsa("gpgsa", gps_used_mask, own), Gsa("gngsa", glo_used_mask, own),
                          GPVTG, GPRMC, GPGGA(own) >>
                  ELSE Blank
  /\ gps_used_mask' = IF generate_nmea THEN {} ELSE gps_used_mask
  /\ glo_used_mask' = IF generate_nmea THEN {} ELSE glo_used_mask
  /\ usedFrom' = IF generate_nmea THEN 0 ELSE usedFrom
  /\ dop' = 0

\* LocEngReportPosition::proc of a session; a time that cannot be converted makes
\* no sentence and uses up nothing.
ReportPosition ==
  /\ \E own, generate_nmea \in BOOLEAN :
       \/ loc_eng_nmea_generate_pos(own, generate_nmea)
       \/ sentences' = <<>> /\ UNCHANGED <<gps_used_mask, glo_used_mask, usedFrom, dop>>
  /\ UNCHANGED <<view, reports>>

Next == ReportSv \/ ReportPosition

Spec == Init /\ [][Next]_vars

-----------------------------------------------------------------------------
\* What is kept is of some report so far.
TypeOK ==
  /\ gps_used_mask \in Masks /\ glo_used_mask \in Masks
  /\ dop \in 0..reports /\ usedFrom \in 0..reports /\ reports \in 0..MaxReports

\* The satellites and the precision that a position is sent with are of one report.
DopMatchesSats == dop # 0 /\ usedFrom # 0 => dop = usedFrom

\* The sentences of a satellite report list each satellite of their kind exactly
\* once and in order, none is empty beside others, and they stand in a row, behind
\* the first f, and are numbered through.
GsvComplete ==
  \A k \in {"gps", "glo"} :
    LET mine == {n \in DOMAIN sentences : sentences[n].kind = k}
        all  == {i \in DOMAIN view : view[i] = k}
    IN  mine # {} =>
          /\ UNION {sentences[n].svs : n \in mine} = all
          /\ \A m, n \in mine : m < n =>
               \A i \in sentences[m].svs, j \in sentences[n].svs : i < j
          /\ \A n \in mine : Cardinality(sentences[n].svs) <= 4
          /\ all # {} => \A n \in mine : sentences[n].svs # {}
          /\ \E f, last \in 0..Len(sentences) :
               /\ mine = f + 1..f + last
               /\ \A n \in mine : sentences[n].number = n - f /\ sentences[n].of = last
=============================================================================
