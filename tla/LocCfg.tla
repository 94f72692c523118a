------------------------------- MODULE LocCfg -------------------------------
(***************************************************************************)
(* The configuration of the location HAL (loc_cfg.cpp, and its users in    *)
(* loc_eng.cpp and loc.cpp): each entry point that hands out the interface *)
(* reads gps.conf and sap.conf, if they were not read yet, and the         *)
(* framework's configuration updates change some values later.  A table    *)
(* says which names a reader knows and of which type they are; the tables  *)
(* here hold a name of each kind.  A line is what one fgets returns, cut   *)
(* at "=" and trimmed; a line without two operands, and a line about a     *)
(* name in no table, is one about Other.                                   *)
(***************************************************************************)
EXTENDS Naturals, FiniteSets, Sequences

CONSTANTS
  Devices,           \* [qca1530, baseband, hw_platform, soc_id, mdm]
  GpsFiles, SapFiles, UpdateTexts,  \* the texts, sequences of lines
  MaxUpdates

VARIABLES
  device,            \* external: what its properties and files tell
  files,             \* gps.conf and sap.conf
  configAlreadyRead,
  conf,              \* gps_conf, sap_conf and the values for the log, by name
  param_set,         \* the names that the last reading of their table set
  expected,          \* history: the value of the last line for each name
  cut,               \* history: a text that the reader need not read to its end
  updates            \* how many updates are left

vars == <<device, files, configAlreadyRead, conf, param_set, expected, cut, updates>>

Line(name, text) == [name |-> name, text |-> text]
Other == "other"

gps_conf_table ==
  [SUPL_VER |-> "n", CAPABILITIES |-> "n", INTERMEDIATE_POS |-> "n", XTRA_SERVER_1 |-> "s"]
sap_conf_table == [GYRO_BIAS_RANDOM_WALK |-> "f", SENSOR_USAGE |-> "n"]
loc_param_table == [DEBUG_LEVEL |-> "n"]

\* The members that have a validity bit.
HasBit == {"GYRO_BIAS_RANDOM_WALK"}

\* What is in the memory before the first reading, and the defaults; a server has none.
InMemory ==
  [SUPL_VER |-> 0, CAPABILITIES |-> 0, INTERMEDIATE_POS |-> 0, XTRA_SERVER_1 |-> "",
   GYRO_BIAS_RANDOM_WALK |-> 0, SENSOR_USAGE |-> 0, DEBUG_LEVEL |-> 255]

SUPL_VER_DEFAULT == 65536  \* version 1.0

loc_default_parameters(c) ==
  [c EXCEPT !.SUPL_VER = SUPL_VER_DEFAULT, !.CAPABILITIES = 7, !.INTERMEDIATE_POS = 0,
            !.GYRO_BIAS_RANDOM_WALK = 0, !.SENSOR_USAGE = 0]

\* What loc_fill_conf_item makes of a text: strtol of "0x..", atoi and atof of the others.
Number(text) == CASE text = "1" -> 1 [] text = "0x7" -> 7 [] text = "NULL" -> 0
Float(text) == CASE text = "1" -> 1 [] text = "0x7" -> 0 [] text = "NULL" -> 0

Stored(type, text) ==
  CASE type = "s" -> IF text = "NULL" THEN "" ELSE text
    [] type = "n" -> Number(text)
    [] type = "f" -> Float(text)

-----------------------------------------------------------------------------
\* One line and a table: the entry it names takes the value, and counts for one record.
\* r is the reader: the values, the names that are set, and the records to go.
loc_fill_conf_item(r, line, table) ==
  IF line.name \notin DOMAIN table THEN r
  ELSE [c |-> [r.c EXCEPT ![line.name] = Stored(table[line.name], line.text)],
        set |-> r.set \cup {line.name},
        num_params |-> r.num_params - 1]

\* The loops read lines until as many records are filled as the table is long.
FillConf(c, lines, table, records) ==
  LET filled[k \in 0..Len(lines)] ==
        IF k = 0 THEN [c |-> c, set |-> {}, num_params |-> records]
        ELSE IF filled[k - 1].num_params = 0 THEN filled[k - 1]
        ELSE loc_fill_conf_item(filled[k - 1], lines[k], table)
  IN filled[Len(lines)]

Records(table) == Cardinality(DOMAIN table)

\* Mutant: a file is read with one record off, as an update is.
loc_read_conf_r_oneOff(c, lines, table) == FillConf(c, lines, table, Records(table) - 1)

\* A file, for one table: the bits are cleared first, so that those set are the ones it names.
loc_read_conf_r(c, lines, table) == FillConf(c, lines, table, Records(table))

\* An update starts with one record off.
loc_update_conf(c, lines, table) == FillConf(c, lines, table, Records(table) - 1)

\* A file is read for the caller's table, and once more for the log.
loc_read_conf(c, lines, table) ==
  LET first == loc_read_conf_r(c, lines, table)
  IN [first EXCEPT !.c = loc_read_conf_r(first.c, lines, loc_param_table).c]

-----------------------------------------------------------------------------
(* What the texts ask for, by their last line for each name.               *)
LinesFor(lines, name) == {i \in DOMAIN lines : lines[i].name = name}

LastValue(c, lines, table) ==
  [n \in DOMAIN c |->
     IF n \in DOMAIN table /\ LinesFor(lines, n) # {}
     THEN Stored(table[n], lines[CHOOSE i \in LinesFor(lines, n) :
                                   \A j \in LinesFor(lines, n) : j <= i].text)
     ELSE c[n]]

Repeats(lines, table) == \E n \in DOMAIN table : Cardinality(LinesFor(lines, n)) > 1
NamesAll(lines, table) == \A n \in DOMAIN table : LinesFor(lines, n) # {}

-----------------------------------------------------------------------------
Init ==
  /\ device \in Devices
  /\ files \in [gps : GpsFiles, sap : SapFiles]
  /\ configAlreadyRead = FALSE
  /\ conf = InMemory /\ param_set = {} /\ expected = InMemory
  /\ cut = FALSE /\ updates = MaxUpdates

\* The kind of GNSS of the target.  A liquid, surf or mtp board that is no MDM is none of
\* the known ones.
loc_get_target ==
  CASE device.qca1530 -> "QCA1530"
    [] ~device.qca1530 /\ device.baseband = "auto" -> "AUTO"
    [] ~device.qca1530 /\ device.baseband = "apq" -> IF device.soc_id = "mpq8064" THEN "NONE" ELSE "GSS"
    [] ~device.qca1530 /\ device.baseband \notin {"auto", "apq"} ->
         CASE device.hw_platform = "mtp" -> IF device.mdm THEN "MDM" ELSE "undetected"
           [] device.hw_platform # "mtp" ->
                IF device.soc_id = "msm8930" \/ device.baseband = "msm" THEN "MSM" ELSE "UNKNOWN"

\* An engine without MSA and MSB: bits 1 and 2 of CAPABILITIES.
Standalone == loc_get_target \in {"GSS", "AUTO", "QCA1530"}

NoAssistance(c) ==
  IF ~Standalone THEN c
  ELSE [c EXCEPT !.CAPABILITIES = 8 * (@ \div 8) + (@ % 2)]

\* Mutant: every entry point reads the files again.
loc_eng_read_config_always ==
  LET gps == loc_read_conf(loc_default_parameters(conf), files.gps, gps_conf_table)
      sap == loc_read_conf(gps.c, files.sap, sap_conf_table)
  IN [c |-> sap.c, set |-> sap.set \cap HasBit]

\* The files are read once; later calls of the entry points find them read.
loc_eng_read_config ==
  IF configAlreadyRead THEN [c |-> conf, set |-> param_set]
  ELSE LET gps == loc_read_conf(loc_default_parameters(conf), files.gps, gps_conf_table)
           sap == loc_read_conf(gps.c, files.sap, sap_conf_table)
       IN [c |-> sap.c, set |-> sap.set \cap HasBit]

get_gps_interface ==
  /\ conf' = NoAssistance(loc_eng_read_config.c)
  /\ param_set' = loc_eng_read_config.set
  /\ configAlreadyRead' = TRUE
  /\ IF configAlreadyRead THEN UNCHANGED <<expected, cut>>
     ELSE LET gps == LastValue(LastValue(loc_default_parameters(conf), files.gps,
                                         gps_conf_table), files.gps, loc_param_table)
              all == LastValue(LastValue(gps, files.sap, sap_conf_table),
                               files.sap, loc_param_table)
          IN /\ expected' = NoAssistance(all)
             /\ cut' = \/ Repeats(files.gps, gps_conf_table)
                       \/ Repeats(files.sap, sap_conf_table)
                       \/ \E f \in {"gps", "sap"} : Repeats(files[f], loc_param_table)
  /\ UNCHANGED <<device, files, updates>>

\* The values an update may change; loc_eng_configuration_update puts the others back.
Updatable == {"SUPL_VER"}

loc_eng_configuration_update(lines) ==
  LET new == loc_update_conf(conf, lines, gps_conf_table).c
  IN [n \in DOMAIN conf |-> IF n \in Updatable THEN new[n] ELSE conf[n]]

\* Without GNSS there is no interface to update anything through.
loc_configuration_update ==
  /\ configAlreadyRead /\ loc_get_target # "NONE"
  /\ updates > 0 /\ updates' = updates - 1
  /\ \E lines \in UpdateTexts :
       /\ conf' = NoAssistance(loc_eng_configuration_update(lines))
       /\ expected' = [n \in DOMAIN conf |->
                         IF n \in Updatable THEN LastValue(expected, lines, gps_conf_table)[n]
                         ELSE expected[n]]
       /\ cut' = (cut \/ Repeats(lines, gps_conf_table) \/ NamesAll(lines, gps_conf_table))
  /\ UNCHANGED <<device, files, configAlreadyRead, param_set>>

Next == get_gps_interface \/ loc_configuration_update

Spec == Init /\ [][Next]_vars

-----------------------------------------------------------------------------
(* A text that gives no name twice, and, in an update, not every name of   *)
(* the table, is read to its end: each value is the one that the texts     *)
(* gave last, whatever was updated since the files were read and however   *)
(* often the interface was asked for; a bit tells the values that the file *)
(* gave from defaults; and a target without assistance never shows it.     *)
ConfigFollowsTexts ==
  /\ configAlreadyRead /\ ~cut =>
       /\ conf = expected
       /\ param_set = {n \in HasBit : LinesFor(files.sap, n) # {}}
  /\ configAlreadyRead /\ Standalone => (conf.CAPABILITIES % 8) < 2
=============================================================================
