----------------------------- MODULE ConfigFile -----------------------------
(***************************************************************************)
(* internal/config: the configuration file as the commands share it.  Each *)
(* loads a copy of its own and writes the whole of it back; os.WriteFile   *)
(* truncates the file, then writes from its start, whatever another save   *)
(* has put there meanwhile.  Of the settings, the two whose limits depend  *)
(* on each other are kept.                                                 *)
(***************************************************************************)
EXTENDS Naturals

CONSTANTS
  Homes,      \* targets of mappings: paths outside the repository
  Names,      \* paths in the repository
  Durations,  \* values of the settings
  MinPull,    \* minPullIntervalSeconds
  Absent,     \* no file, no mapping
  Torn,       \* the file is truncated, and a save is about to write it
  Cut,        \* the save failed or was killed, it may have written a part
  Mixed       \* what one save has written ends in the rest of another

VARIABLE disk

Configs == [maps : [Names -> Homes \cup {Absent}], pull : Durations, debounce : Durations]

ASSUME ConfigAssumption ==
  /\ Durations \subseteq Nat /\ MinPull \in Nat
  /\ Absent \notin Homes \cup Names /\ Torn \notin Configs \cup {Cut, Mixed}

\* The positive and the lower limits, and the one on both.
Validate(cfg) == cfg.pull >= MinPull /\ cfg.debounce > 0 /\ cfg.debounce <= cfg.pull

Settings == {"pull", "debounce"}

\* No JSON: LoadFromFile cannot parse it.
Broken == {Torn, Cut, Mixed}

DiskTypeOK == disk \in Configs \cup Broken
DiskInit(maps) ==
  \E pull, debounce \in Durations :
    /\ disk = [maps |-> maps, pull |-> pull, debounce |-> debounce]
    /\ Validate(disk)

\* LoadFromFile refuses what it cannot parse and what is not valid.
Loadable == disk \notin Broken /\ Validate(disk)

\* SaveToFile: validation, truncation, and the data, which replaces all that is
\* there when it is not the shorter.
SaveRefused(cfg) == ~Validate(cfg)
SaveTruncates(cfg) == Validate(cfg) /\ disk' = Torn
SaveWrites(cfg) == disk' = cfg \/ (disk \notin {Torn, cfg} /\ disk' = Mixed)

\* The write fails, or the process is killed before or in it.
SaveCut == disk' \in IF disk \in {Torn, Cut} THEN {Cut} ELSE {disk, Mixed}

\* checkTargetConflict
TargetConflict(cfg, h, except) == \E n \in Names \ {except} : cfg.maps[n] = h

\* Mutation: the target is not looked for.
AddableUnchecked(cfg, n, h) == cfg.maps[n] = Absent

\* AddMapping, in memory.  ValidateMapping holds of the paths in Names and Homes.
Addable(cfg, n, h) == cfg.maps[n] = Absent /\ ~TargetConflict(cfg, h, Absent)
WithMapping(cfg, n, h) == [cfg EXCEPT !.maps[n] = h]
WithoutMapping(cfg, n) == [cfg EXCEPT !.maps[n] = Absent]
WithSetting(cfg, key, d) == [cfg EXCEPT ![key] = d]

\* The name a target is mapped from, as the commands search for it.
MappedFrom(cfg, h) == IF TargetConflict(cfg, h, Absent)
                      THEN CHOOSE n \in Names : cfg.maps[n] = h ELSE Absent
=============================================================================
