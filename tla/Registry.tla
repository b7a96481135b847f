------------------------------ MODULE Registry ------------------------------
(***************************************************************************)
(* What setup() fills once and nothing empties again: the registry of        *)
(* modules with its fixed tables, the boot log, and the one fault a boot      *)
(* can have.  registerModules() adds modules one after the other and ignores *)
(* what add() returns; whatever else has something to say in the log says it *)
(* after that.                                                             *)
(***************************************************************************)
EXTENDS Integers, Sequences

CONSTANTS
  ParamCounts, TlmCounts,          \* what a module's descriptor may announce
  MaxAdds,                         \* calls of add() in registerModules()
  MaxModules, MaxParams, MaxTlm,   \* FW_MAX_MODULES, FW_MAX_PARAMS, FW_MAX_TLM
  MaxLines                         \* BootLog::kMaxLines

ASSUME RegistryAssumption ==
  /\ ParamCounts \subseteq Nat /\ TlmCounts \subseteq Nat /\ MaxAdds \in Nat
  /\ {MaxModules, MaxParams, MaxTlm} \subseteq Nat /\ MaxLines \in Nat \ {0}

Descs == [params : ParamCounts, tlm : TlmCounts]

VARIABLES
  registry,     \* [mods, params, tlm]: the entries and the two counts
  health,       \* the first fault, or "none"
  log,          \* [lines, dropped]
  added,        \* how often add() was called
  registering   \* whether setup() is still in registerModules()

regVars == <<registry, health, log, added, registering>>

RegInit ==
  /\ registry = [mods |-> <<>>, params |-> 0, tlm |-> 0]
  /\ health = "none"
  /\ log = [lines |-> <<>>, dropped |-> FALSE]
  /\ added = 0
  /\ registering = TRUE

(* BootLog::add.                                                             *)
LogLine(line) ==
  log' = IF Len(log.lines) >= MaxLines THEN [log EXCEPT !.dropped = TRUE]
         ELSE [log EXCEPT !.lines = Append(@, line)]

(* Slip: every fault is taken for the first.                                 *)
Fail_Again(fault) == health' = fault /\ LogLine(fault)

(* Health::fail: the first fault stays, and names itself in the log once.    *)
Fail(fault) ==
  IF health # "none" THEN UNCHANGED <<health, log>>
  ELSE health' = fault /\ LogLine(fault)

Fits(desc) ==
  /\ Len(registry.mods) < MaxModules
  /\ registry.params + desc.params <= MaxParams
  /\ registry.tlm + desc.tlm <= MaxTlm

Entry(desc) == [desc |-> desc, paramBase |-> registry.params, tlmBase |-> registry.tlm]

(* Slip: the parameters are counted before the rest is found not to fit.     *)
Refuse_CountsFirst(desc) ==
  /\ registry' = [registry EXCEPT !.params =
                    IF @ + desc.params <= MaxParams THEN @ + desc.params ELSE @]
  /\ Fail("registry")

Refuse(desc) == Fail("registry") /\ UNCHANGED registry

Accept(desc) ==
  /\ registry' = [mods   |-> Append(registry.mods, Entry(desc)),
                  params |-> registry.params + desc.params,
                  tlm    |-> registry.tlm + desc.tlm]
  /\ UNCHANGED <<health, log>>

(* Registry::add.                                                            *)
AddModule ==
  /\ registering /\ added < MaxAdds
  /\ \E desc \in Descs : IF Fits(desc) THEN Accept(desc) ELSE Refuse(desc)
  /\ added' = added + 1
  /\ UNCHANGED registering

(* setup() and the modules' begin(), then whatever a running module reports. *)
Report ==
  /\ LogLine("report")
  /\ registering' = FALSE
  /\ UNCHANGED <<registry, health, added>>

RegNext == AddModule \/ Report

RegSpec == RegInit /\ [][RegNext]_regVars
-----------------------------------------------------------------------------
(* Registry::ownerOfParam: the entries that answer for a global index; and   *)
(* tlmDef's.                                                                *)
Owners(id) ==
  {i \in DOMAIN registry.mods :
     LET e == registry.mods[i] IN id \in e.paramBase .. e.paramBase + e.desc.params - 1}

TlmOwners(id) ==
  {i \in DOMAIN registry.mods :
     LET e == registry.mods[i] IN id \in e.tlmBase .. e.tlmBase + e.desc.tlm - 1}

(* An index has one owner, and the fault one line.                           *)
One(S) == \E i \in S : S = {i}

(* What registerModules() leaves: every index below a count has exactly one  *)
(* owner and none beyond it has any, and the tables hold what they have      *)
(* room for (Registry::add; "the fallback is unreachable", tlmDef).          *)
ModulesFit ==
  /\ \A id \in 0 .. MaxParams : IF id < registry.params THEN One(Owners(id))
                                                         ELSE Owners(id) = {}
  /\ \A id \in 0 .. MaxTlm : IF id < registry.tlm THEN One(TlmOwners(id))
                                                   ELSE TlmOwners(id) = {}
  /\ registry.params <= MaxParams /\ registry.tlm <= MaxTlm
  /\ Len(registry.mods) <= MaxModules

(* A boot is at fault exactly when a module was left out, and the log, which *)
(* fills up and drops what comes late, says so once (Health::fail).          *)
FaultIsTold ==
  LET Told == {i \in DOMAIN log.lines : log.lines[i] = "registry"}
  IN  /\ health = "registry" <=> Len(registry.mods) < added
      /\ IF health = "registry" THEN One(Told) ELSE Told = {}

(* What add() leaves of a module that fits and of one that does not: the     *)
(* tables are shared out without a gap, and whoever is left out is told of.  *)
RegistryHonest == ModulesFit /\ FaultIsTold
=============================================================================
