---------------------------- MODULE CameraWrapper ----------------------------
(***************************************************************************)
(* src/camera/CameraWrapper.cpp: the camera HAL in front of the vendor's.  *)
(* It translates the parameters both ways and restarts the preview when    *)
(* zero shutter lag (zsl) is turned on or off under it.  What it remembers *)
(* (zslState, previewRunning, activeFocusMove) is global and outlives the  *)
(* device it was learnt from.                                              *)
(* The camera service opens one camera at a time and holds a lock around   *)
(* each call; the calls may come in any order, for the wrapper checks      *)
(* none, and the vendor's notifications come on a thread of its own.  A    *)
(* set of parameters keeps the keys that the wrapper looks at.             *)
(***************************************************************************)
EXTENDS Naturals

CONSTANT MaxOpens  \* the number of times a camera is opened

VARIABLES
  gVendorModule,   \* is the vendor's module loaded
  device,          \* the id of the camera that is open, or None
  vendor,          \* the vendor's camera: parameters, preview, focus
  zslState, previewRunning, activeFocusMove,  \* as in the code
  focusing,        \* a call of auto_focus that is under way
  asked,           \* the ISO mode the application chose last, or "none"
  drifted,         \* has a flag been wrong of the vendor since the open (Drift)
  opens            \* the number of opens so far

vars == <<gVendorModule, device, vendor, zslState, previewRunning, activeFocusMove,
          focusing, asked, drifted, opens>>

None == 2
Cameras == {0, 1}       \* 0 is the back camera
OnOff == {"on", "off"}

\* The tables of the two fixups for "auto" and two of the 16 numbered modes.
iso_values == [id \in Cameras |->
                IF id = 0 THEN {"auto", "ISO50", "ISO2700"} ELSE {"auto"}]
ToLge == [m \in iso_values[0] |->
           CASE m = "ISO50" -> "50" [] m = "ISO2700" -> "2700" [] OTHER -> "auto"]
FromLge == [m \in {"auto", "50", "2700"} |->
             CASE m = "50" -> "ISO50" [] m = "2700" -> "ISO2700" [] OTHER -> "auto"]

Default == [zsl |-> "off", mode |-> "0", iso |-> "auto", lgIso |-> "auto",
            hint |-> "off", is4k |-> FALSE, lge |-> "0", format |-> "yuv420sp",
            scene |-> "auto", hdr |-> "0", snaps |-> 3]

\* 4K video is for the back camera; several snaps are for zsl alone.
camera_fixup_getparams(id, p) ==
  [p EXCEPT !.iso    = FromLge[p.lgIso],
            !.format = IF id = 0 /\ p.is4k THEN "yuv420sp" ELSE @,
            !.snaps  = IF p.hint = "off" /\ p.zsl = "off" THEN 1 ELSE @]

camera_fixup_setparams(id, p) ==
  [p EXCEPT !.lge   = IF id = 0 /\ p.is4k THEN "1" ELSE "0",
            !.hdr   = IF p.hint = "off" /\ p.scene = "hdr" THEN "1" ELSE "0",
            !.iso   = "auto",
            !.lgIso = ToLge[p.iso],
            !.mode  = IF p.zsl = "on" THEN "1" ELSE "0"]

Init ==
  /\ gVendorModule = FALSE /\ device = None
  /\ vendor = [params |-> Default, preview |-> "off", moving |-> FALSE]
  /\ zslState = FALSE /\ previewRunning = FALSE
  /\ activeFocusMove = FALSE /\ focusing = FALSE
  /\ asked = "none" /\ drifted = FALSE /\ opens = 0

Called == device # None /\ ~focusing

\* get_number_of_cameras and get_camera_info load the module too.
check_vendor_module ==
  /\ ~gVendorModule /\ gVendorModule' = TRUE
  /\ UNCHANGED <<device, vendor, zslState, previewRunning, activeFocusMove,
                 focusing, asked, drifted, opens>>

\* The vendor starts every camera with its default parameters.
camera_device_open(id) ==
  /\ device = None /\ gVendorModule /\ opens < MaxOpens
  /\ device' = id /\ opens' = opens + 1
  /\ vendor' = [params |-> Default, preview |-> "off", moving |-> FALSE]
  /\ asked' = "none" /\ drifted' = zslState
  /\ UNCHANGED <<gVendorModule, zslState, previewRunning, activeFocusMove, focusing>>

camera_device_close ==
  /\ Called /\ device' = None
  /\ UNCHANGED <<gVendorModule, vendor, zslState, previewRunning, activeFocusMove,
                 focusing, asked, drifted, opens>>

-----------------------------------------------------------------------------
\* What the calls do to the vendor and to previewRunning: a pair, so that
\* the calls the wrapper makes of itself compose.  A preview that runs keeps
\* the mode it was started in.
Started(v) == IF v.preview = "off" THEN [v EXCEPT !.preview = v.params.mode] ELSE v
Stopped(v) == [v EXCEPT !.preview = "off"]

start_preview(s) == {[v |-> Started(s.v), running |-> TRUE], [v |-> s.v, running |-> FALSE]}

stop_preview(s) == [v |-> Stopped(s.v), running |-> FALSE]

\* Mutant: only turning zsl off restarts the preview.
Flips_offOnly(p) == previewRunning /\ zslState /\ p.zsl = "off"

\* A change of zsl under a running preview (flipZsl).
Flips(p) == previewRunning /\ (zslState # (p.zsl = "on"))

\* The vendor takes the parameters or refuses them all.
set_parameters(s, id, p) ==
  LET stopped == IF Flips(p) THEN stop_preview(s) ELSE s
      taken   == {[stopped EXCEPT !.v.params = camera_fixup_setparams(id, p)], stopped}
  IN  IF Flips(p) THEN UNION {start_preview(t) : t \in taken} ELSE taken

State == [v |-> vendor, running |-> previewRunning]
Become(s) == vendor' = s.v /\ previewRunning' = s.running
Zsl(p) == zslState' = (p.zsl = "on")

\* A flag is wrong: zslState is not the vendor's zsl (a refusal, a device before
\* this one), or a preview runs that previewRunning does not know of.
Drift == drifted' = \/ drifted \/ zslState' # (vendor'.params.zsl = "on")
                    \/ vendor'.preview # "off" /\ ~previewRunning'

camera_start_preview ==
  /\ Called /\ (\E s \in start_preview(State) : Become(s))
  /\ UNCHANGED <<gVendorModule, device, zslState, activeFocusMove, focusing, asked, opens>>
  /\ Drift

camera_stop_preview ==
  /\ Called /\ Become(stop_preview(State))
  /\ UNCHANGED <<gVendorModule, device, zslState, activeFocusMove, focusing,
                 asked, drifted, opens>>

camera_get_parameters == camera_fixup_getparams(device, vendor.params)

\* An application changes some of the parameters it reads and sets them all.
camera_set_parameters ==
  /\ Called
  /\ \E zsl \in OnOff, iso \in iso_values[device], hint \in OnOff, big \in BOOLEAN,
        scene \in {"auto", "hdr"} :
       LET p == [camera_get_parameters EXCEPT !.zsl = zsl, !.iso = iso, !.hint = hint,
                                              !.is4k = big, !.scene = scene]
       IN  /\ \E s \in set_parameters(State, device, p) :
                /\ Become(s)
                /\ asked' = IF s.v.params = camera_fixup_setparams(device, p)
                            THEN iso ELSE asked
           /\ Zsl(p) /\ Drift
  /\ UNCHANGED <<gVendorModule, device, activeFocusMove, focusing, opens>>

\* Mutant: the vendor's own parameters, which keep the ISO mode elsewhere.
Recorded_raw == [vendor.params EXCEPT !.format = "nv12-venus"]

\* Parameters of a recording: read as an application reads them, then set.
Recorded == LET p == camera_get_parameters
            IN  IF device = 0 /\ p.is4k THEN [p EXCEPT !.format = "nv12-venus"] ELSE p

camera_start_recording ==
  /\ Called
  /\ \E s \in set_parameters(State, device, Recorded) : Become(s)
  /\ Zsl(Recorded) /\ Drift
  /\ UNCHANGED <<gVendorModule, device, activeFocusMove, focusing, asked, opens>>

\* The vendor's preview is restarted without the wrapper's flag, and started if
\* it did not run.
camera_stop_recording ==
  /\ Called
  /\ \E s \in start_preview([v |-> Stopped(vendor), running |-> previewRunning]) : vendor' = s.v
  /\ UNCHANGED <<gVendorModule, device, zslState, previewRunning, activeFocusMove,
                 focusing, asked, opens>>
  /\ Drift

-----------------------------------------------------------------------------
\* The vendor's focus begins or ends to move and its thread says so.
notify_intercept ==
  /\ device # None
  /\ activeFocusMove' \in BOOLEAN
  /\ vendor' = [vendor EXCEPT !.moving = activeFocusMove']
  /\ UNCHANGED <<gVendorModule, device, zslState, previewRunning, focusing,
                 asked, drifted, opens>>

\* auto_focus first ends a move it knows of ...
camera_auto_focus ==
  /\ Called
  /\ focusing' = TRUE
  /\ vendor' = IF activeFocusMove THEN [vendor EXCEPT !.moving = FALSE] ELSE vendor
  /\ UNCHANGED <<gVendorModule, device, zslState, previewRunning, activeFocusMove,
                 asked, drifted, opens>>

\* ... then forgets it; a notification may have come in between.
autoFocusReturns ==
  /\ focusing /\ focusing' = FALSE
  /\ activeFocusMove' = FALSE
  /\ UNCHANGED <<gVendorModule, device, vendor, zslState, previewRunning,
                 asked, drifted, opens>>

camera_cancel_auto_focus ==
  /\ Called
  /\ vendor' = [vendor EXCEPT !.moving = FALSE]
  /\ UNCHANGED <<gVendorModule, device, zslState, previewRunning, activeFocusMove,
                 focusing, asked, drifted, opens>>

Next ==
  \/ check_vendor_module \/ \E id \in Cameras : camera_device_open(id)
  \/ camera_device_close \/ camera_start_preview \/ camera_stop_preview
  \/ camera_set_parameters \/ camera_start_recording \/ camera_stop_recording
  \/ notify_intercept \/ camera_auto_focus \/ autoFocusReturns \/ camera_cancel_auto_focus

Spec == Init /\ [][Next]_vars

-----------------------------------------------------------------------------
\* The members have their types.
TypeOK ==
  /\ gVendorModule \in BOOLEAN /\ device \in Cameras \cup {None}
  /\ vendor.preview \in {"off", "0", "1"}
  /\ vendor.params.iso = "auto" /\ vendor.params.lgIso \in DOMAIN FromLge
  /\ zslState \in BOOLEAN /\ previewRunning \in BOOLEAN /\ activeFocusMove \in BOOLEAN

\* A preview runs in the mode of the vendor's parameters: whoever turns zsl on or
\* off under it restarts it, in and out of a recording.  As long as the flags the
\* wrapper goes by have been right since the open: once the end of a recording
\* has started a preview that was stopped meanwhile, or zslState is another
\* device's, the wrapper cannot know.
PreviewInMode ==
  device # None /\ ~drifted => vendor.preview \in {"off", vendor.params.mode}

\* The application reads back the ISO mode it set, under whatever keys the vendor
\* keeps it and however often a recording reads and sets the parameters itself.
IsoKept == device # None /\ asked # "none" => camera_get_parameters.iso = asked

\* The wrapper's flags and the vendor's parameters agree.
VendorAgrees == TypeOK /\ PreviewInMode /\ IsoKept
=============================================================================
