---------------------------- MODULE SettingsStore ----------------------------
(***************************************************************************)
(* What a client may rely on about saved settings: the store holds one      *)
(* whole set of settings, with the layout it was taken under, or nothing;   *)
(* a restart and a revert both bring back exactly that, or the factory      *)
(* values where there is nothing this build can read.                      *)
(***************************************************************************)
CONSTANTS
  Builds,           \* firmware builds that may be flashed
  SettingsOf,       \* build -> the settings its parameter tables allow
  PrintOf,          \* build -> the identity of its parameter layout
  Factory,          \* build -> its default settings
  Nothing           \* what an empty store holds

VARIABLES build, ram, stored, acked

vars == <<build, ram, stored, acked>>

Image(b, settings) == [print |-> PrintOf[b], settings |-> settings]

Restored(b, image) ==
  IF image # Nothing /\ image.print = PrintOf[b] THEN image.settings ELSE Factory[b]

Init ==
  /\ build \in Builds
  /\ ram = Factory[build]
  /\ stored = Nothing
  /\ acked = Nothing

Edit ==
  /\ ram' \in SettingsOf[build]
  /\ UNCHANGED <<build, stored, acked>>

(* A save forgets the old image before it keeps the new one, and says so    *)
(* only afterwards; it may end anywhere in between.                        *)
Forget ==
  /\ stored' = Nothing
  /\ acked' = Nothing
  /\ UNCHANGED <<build, ram>>

Keep ==
  /\ stored' = Image(build, ram)
  /\ UNCHANGED <<build, ram, acked>>

Acknowledge ==
  /\ stored = Image(build, ram)
  /\ acked' = stored
  /\ UNCHANGED <<build, ram, stored>>

(* A power cycle, with or without a new build flashed, or a revert.         *)
Restart ==
  /\ build' \in Builds
  /\ ram' = Restored(build', stored)
  /\ UNCHANGED <<stored, acked>>

Next == Edit \/ Forget \/ Keep \/ Acknowledge \/ Restart

Spec == Init /\ [][Next]_vars
=============================================================================
