---------------------------- MODULE PatchLevels ----------------------------
(***************************************************************************)
(* The patch levels and the boot key that OhMyKeymint presents, and the    *)
(* places that must agree on them: config.toml, the system properties, the *)
(* saved defaults (security_patch_defaults.toml), the saved boot key       *)
(* (vbmeta_state.toml), the runtime configuration and the live KeyMint     *)
(* instances.                                                              *)
(*                                                                         *)
(* Two processes change them, the daemon and the command that the web UI   *)
(* runs, both under the flock of acquire_operation_lock; a user edits      *)
(* config.toml with no lock, and the daemon's watcher reloads it.  A patch *)
(* date is 10 * month + day; the four patch fields of the config are Auto, *)
(* Latest or a date, and rest stands for the other fields of its [trust].  *)
(* vb_key is the spec of that table which the boot key comes from; no user *)
(* changes it here, since a user who does asks for another boot key.       *)
(***************************************************************************)
EXTENDS Integers, Sequences, FiniteSets

CONSTANTS
    Builds,   \* sequence of [system, vendor, boot]: the defaults of each OTA
    Edits,    \* the [trust] tables that a user writes into config.toml
    Requests, \* what the web UI asks for: Auto or a date
    Today,    \* the date that "latest" stands for
    RandomKeys, \* the values that a random boot key may have
    Levels,   \* the security levels with a KeyMint instance
    Faults    \* may writes fail and processes be killed?

Auto   == 0
Latest == 1
Random == 2
None   == [kind |-> "none"]

\* A [trust] table with the same value in its four patch fields.
Same(v, rest) == [sec |-> v, os |-> v, vendor |-> v, boot |-> v, rest |-> rest]

VARIABLES
    build,   \* index of the running build; its fingerprint
    prop,    \* the properties ro.build.version.security_patch and ro.vendor...
    conf,    \* the [trust] table of config.toml
    dirty,   \* the watcher has an event to handle
    snap,    \* security_patch_defaults.toml, or None
    vb,      \* vb_key: the config's spec, vbmeta_state.toml, and what is served
    lock,    \* who holds the operation lock
    web,     \* the step of the web UI's command
    daemon,  \* the step of the daemon
    run,     \* the runtime configuration, or None
    ta,      \* per level: the patch levels of the live instance, or None
    byHand   \* history: an edit wrote the property, with no current snapshot, since boot

vars == <<build, prop, conf, dirty, snap, vb, lock, web, daemon, run, ta, byHand>>

Defaults == [system |-> Builds[build].system, vendor |-> Builds[build].vendor]
Current  == snap # None /\ snap.fp = build   \* the snapshot is of this build
IdleStep == [at |-> "idle"]
NoKey    == 0

\* What the proofs need of the constants.
PatchAssumption == Requests \subseteq Nat /\ RandomKeys \subseteq Nat \ {Auto, Random}

Init ==
    /\ build = 1 /\ prop = Defaults
    /\ conf = Same(Auto, Auto) /\ dirty = FALSE
    /\ snap = None
    /\ vb \in {[spec |-> s, saved |-> NoKey, served |-> NoKey] : s \in {Auto, Random}}
    /\ lock = "free" /\ web = IdleStep /\ daemon = [at |-> "down"]
    /\ run = None /\ ta = [l \in Levels |-> None] /\ byHand = FALSE
-----------------------------------------------------------------------------
(***************************************************************************)
(* Resolving the config's fields.                                          *)
(***************************************************************************)
\* patch_intent: all fields auto, all the same date, or anything else.
Intent(t) ==
    IF t = Same(Auto, t.rest) THEN "auto"
    ELSE IF t = Same(t.sec, t.rest) /\ t.sec # Latest THEN "synchronized"
    ELSE "other"

\* resolve_security_patch_value and resolve_patchlevel_mode.
Mode(v, auto) == CASE v = Auto -> auto [] v = Latest -> Today [] OTHER -> v

\* resolve_patch_levels_from; boot stands for what the boot image says.
Resolve(t, p, boot) ==
    LET s == Mode(t.sec, p.system)
    IN  [sec |-> s, os |-> Mode(t.os, s),
         vendor |-> Mode(t.vendor, p.vendor), boot |-> Mode(t.boot, boot)]

Writes(t, p) == t.sec # Auto /\ Mode(t.sec, p.system) # p.system

\* populate_hal_info_from, extract_boot_patchlevel: the OS level loses its day.
Wire(r) == [os |-> r.os \div 10, vendor |-> r.vendor, boot |-> r.boot]

\* synchronized_security_patch_date: the 5th becomes the 1st on a build of the 1st.
SyncDate(v, s) == IF v # Auto /\ s.system % 10 = 1 /\ v % 10 = 5 THEN v - 4 ELSE v

\* write_security_patch_properties_with_rollback: both are written, or it fails;
\* then (after the final verification, at the latest) each is rolled back, or not.
PairWrite(before, desired) ==
    {[ok |-> TRUE, prop |-> desired]} \cup
    IF Faults THEN {[ok |-> FALSE, prop |-> [system |-> s, vendor |-> v]] :
                      s \in {before.system, desired.system}, v \in {before.vendor, desired.vendor}}
    ELSE {}

\* write_security_patch_with_rollback, of the system property alone.
SystemWrite(value) ==
    {[ok |-> TRUE, prop |-> [prop EXCEPT !.system = value]]} \cup
    IF Faults THEN {[ok |-> FALSE, prop |-> prop]} ELSE {}
-----------------------------------------------------------------------------
(***************************************************************************)
(* apply_webui_security_patch, a process of its own.                       *)
(***************************************************************************)
\* What persist_snapshot writes; the last field is history, for the properties.
Saved(p) == [fp |-> build, system |-> p.system, vendor |-> p.vendor, byHand |-> byHand]

\* Mutant of Recorded: an old snapshot is good enough after an OTA.
MutRecorded ==
    IF snap # None THEN [snap EXCEPT !.fp = build]
    ELSE Saved(IF Intent(conf) = "auto" THEN prop ELSE Defaults)

\* ensure_defaults_snapshot: keep the one of this build; else the live
\* properties when nothing overrides them, else the build's files.
Recorded ==
    IF Current THEN snap
    ELSE LET p == IF Intent(conf) = "auto" THEN prop ELSE Defaults
         IN  Saved(p)

WebStart(v) ==
    /\ web = IdleStep /\ lock = "free"
    /\ lock' = "web" /\ snap' = Recorded
    /\ web' = [at |-> "write", before |-> prop, value |-> SyncDate(v, Recorded),
               desired |-> LET d == SyncDate(v, Recorded)
                           IN  IF v = Auto THEN [system |-> Recorded.system, vendor |-> Recorded.vendor]
                               ELSE [system |-> d, vendor |-> d]]
    /\ UNCHANGED <<build, prop, conf, dirty, vb, daemon, run, ta, byHand>>

WebEnds == web' = IdleStep /\ lock' = "free"

WebWrites ==
    /\ web.at = "write"
    /\ \E o \in PairWrite(web.before, web.desired) :
         /\ prop' = o.prop
         /\ IF o.ok THEN web' = [web EXCEPT !.at = "config"] /\ UNCHANGED lock ELSE WebEnds
    /\ byHand' = (byHand \/ snap.byHand)
    /\ UNCHANGED <<build, conf, dirty, snap, vb, daemon, run, ta>>

\* sync_security_patch; a write that fails rolls the properties back.
WebConfigures ==
    /\ web.at = "config"
    /\ \/ /\ conf' = Same(web.value, conf.rest) /\ dirty' = (dirty \/ conf' # conf)
          /\ IF web.value = Auto THEN web' = [at |-> "remove"] /\ UNCHANGED lock ELSE WebEnds
          /\ UNCHANGED prop
       \/ /\ Faults
          /\ \E o \in PairWrite(web.desired, web.before) : prop' = o.prop
          /\ WebEnds /\ UNCHANGED <<conf, dirty>>
    /\ UNCHANGED <<build, snap, vb, daemon, run, ta, byHand>>

\* remove_snapshot, once the defaults are back.
WebRemoves ==
    /\ web.at = "remove"
    /\ snap' \in {None} \cup (IF Faults THEN {snap} ELSE {})
    /\ WebEnds
    /\ UNCHANGED <<build, prop, conf, dirty, vb, daemon, run, ta, byHand>>

WebKilled ==
    /\ Faults /\ web # IdleStep
    /\ WebEnds
    /\ UNCHANGED <<build, prop, conf, dirty, snap, vb, daemon, run, ta, byHand>>
-----------------------------------------------------------------------------
(***************************************************************************)
(* The daemon: start-up, and the watcher's reloads.                        *)
(***************************************************************************)
Exits == daemon' = [at |-> "down"] /\ lock' = "free" /\ run' = None
         /\ ta' = [l \in Levels |-> None] /\ dirty' = FALSE

\* run() up to prepare_startup: an active override is written again, and the
\* defaults of a new build are saved first.  Failing is only a warning.
Prepare ==
    /\ daemon.at = "down" /\ lock = "free"
    /\ lock' = "daemon" /\ daemon' = [at |-> "boot", trust |-> conf]
    /\ IF Intent(conf) = "synchronized" /\ snap # None
       THEN /\ snap' = IF Current THEN snap ELSE Saved(Defaults)
            /\ \E o \in PairWrite(prop, [system |-> conf.sec, vendor |-> conf.sec]) : prop' = o.prop
       ELSE UNCHANGED <<snap, prop>>
    /\ UNCHANGED <<build, conf, dirty, vb, web, run, ta, byHand>>

\* Mutant of StableKey: a saved key is only used when none can be resolved.
MutStableKey(found, draw) ==
    IF found # NoKey THEN found ELSE IF vb.saved # NoKey THEN vb.saved ELSE draw

\* resolve_stable_vb_key and resolve_vb_key: a key given in the config, or a new
\* one every time when it says "random"; for "auto" the saved key, else what the
\* property or the vbmeta partition says (found), else a random one.
StableKey(found, draw) ==
    IF vb.spec = Random THEN draw
    ELSE IF vb.spec # Auto THEN vb.spec
    ELSE IF vb.saved # NoKey THEN vb.saved
    ELSE IF found # NoKey THEN found
    ELSE draw

\* TrustValueSource::RandomFallback.
IsRandom(found) == vb.spec = Auto /\ vb.saved = NoKey /\ found = NoKey

\* bootstrap_vbmeta, as far as saving the boot key.
PinKey(found, draw) ==
    /\ daemon.at = "boot"
    /\ daemon' = [at |-> "pinned", trust |-> daemon.trust,
                  key |-> StableKey(found, draw), random |-> IsRandom(found)]
    /\ vb' = [vb EXCEPT !.saved = IF vb.spec = Auto THEN StableKey(found, draw) ELSE @]
    /\ UNCHANGED <<build, prop, conf, dirty, snap, lock, web, run, ta, byHand>>

\* The rest of bootstrap_vbmeta and install_runtime_config: a random key is
\* also pinned in config.toml, which is written whole; the security patch property is written.
Install ==
    /\ daemon.at = "pinned"
    /\ LET t == daemon.trust
           r == Resolve(t, prop, Builds[build].boot)
       IN  \/ /\ \E o \in IF Writes(t, prop) THEN SystemWrite(r.sec) ELSE {[ok |-> TRUE, prop |-> prop]} :
                   o.ok /\ prop' = o.prop
              /\ vb' = [vb EXCEPT !.spec = IF daemon.random THEN daemon.key ELSE @,
                                  !.served = daemon.key]
              /\ conf' = IF daemon.random THEN t ELSE conf
              /\ run' = [trust |-> r, intent |-> t]
              /\ daemon' = [at |-> "up"] /\ lock' = "free"
              /\ byHand' = (byHand \/ (Writes(t, prop) /\ ~Current))
              /\ UNCHANGED <<ta, dirty>>
           \/ /\ Faults /\ Exits /\ UNCHANGED <<prop, conf, vb, byHand>>
    /\ UNCHANGED <<build, snap, web>>

\* reload_runtime_config takes the lock, reads the file and snapshots the runtime.
Reload ==
    /\ daemon.at = "up" /\ dirty /\ lock = "free"
    /\ lock' = "daemon" /\ dirty' = FALSE
    /\ daemon' = [at |-> "reload", trust |-> conf]
    /\ UNCHANGED <<build, prop, conf, snap, vb, web, run, ta, byHand>>

\* trust_changed_beyond_patchlevels: the whole table waits for a restart.
WaitsForRestart(t) == t.rest # run.intent.rest

\* The new runtime: a boot level of "auto" keeps the value in use.
Candidate(t) ==
    IF WaitsForRestart(t) THEN run
    ELSE [trust |-> Resolve(t, prop, run.trust.boot), intent |-> t]

\* Mutant of UpdatesLevels: only the OS and vendor levels are compared.
MutUpdatesLevels(old, new) == old.os # new.os \/ old.vendor # new.vendor

UpdatesLevels(old, new) == old.os # new.os \/ old.vendor # new.vendor \/ old.boot # new.boot

\* apply_runtime_config_update, under the lifecycle lock, the locks of both
\* instances and the config's write lock: property, instances, runtime.
Apply ==
    /\ daemon.at = "reload"
    /\ LET c == Candidate(daemon.trust)
           w == ~WaitsForRestart(daemon.trust) /\ Writes(daemon.trust, prop)
       IN  \E o \in IF w THEN SystemWrite(c.trust.sec)
                    ELSE {[ok |-> TRUE, prop |-> prop]} :
             /\ prop' = o.prop
             /\ IF o.ok
                THEN /\ run' = c
                     /\ ta' = [l \in Levels |->
                                IF ta[l] # None /\ UpdatesLevels(run.trust, c.trust)
                                THEN Wire(c.trust) ELSE ta[l]]
                ELSE UNCHANGED <<run, ta>>
             /\ byHand' = (byHand \/ (o.ok /\ w /\ ~Current))
    /\ daemon' = [at |-> "up"] /\ lock' = "free"
    /\ UNCHANGED <<build, conf, dirty, snap, vb, web>>

\* shared_keymint_wrapper_inner: an instance is made from the runtime of then.
OpenInstance(l) ==
    /\ run # None /\ ta[l] = None
    /\ ta' = [ta EXCEPT ![l] = Wire(run.trust)]
    /\ UNCHANGED <<build, prop, conf, dirty, snap, vb, lock, web, daemon, run, byHand>>

DaemonKilled ==
    /\ Faults /\ daemon.at # "down"
    /\ daemon' = [at |-> "down"] /\ run' = None /\ ta' = [l \in Levels |-> None] /\ dirty' = FALSE
    /\ lock' = IF lock = "daemon" THEN "free" ELSE lock
    /\ UNCHANGED <<build, prop, conf, snap, vb, web, byHand>>

\* The device boots again, possibly after an OTA: properties are the build's.
Reboot(b) ==
    /\ b \in {build, build + 1} \cap DOMAIN Builds
    /\ build' = b /\ prop' = [system |-> Builds[b].system, vendor |-> Builds[b].vendor]
    /\ web' = IdleStep /\ daemon' = [at |-> "down"] /\ lock' = "free"
    /\ run' = None /\ ta' = [l \in Levels |-> None] /\ dirty' = FALSE /\ byHand' = FALSE
    /\ UNCHANGED <<conf, snap, vb>>

\* A user edits the file (config.toml is replaced in one step).
Edit(t) ==
    /\ t # conf
    /\ conf' = t /\ dirty' = (daemon.at \in {"up", "reload"})
    /\ UNCHANGED <<build, prop, snap, vb, lock, web, daemon, run, ta, byHand>>

Next ==
    \/ \E v \in Requests : WebStart(v)
    \/ WebWrites \/ WebConfigures \/ WebRemoves \/ WebKilled
    \/ Prepare \/ (\E k \in {NoKey, 1}, d \in RandomKeys : PinKey(k, d)) \/ Install \/ Reload \/ Apply
    \/ \E l \in Levels : OpenInstance(l)
    \/ DaemonKilled
    \/ \E b \in DOMAIN Builds : Reboot(b)
    \/ \E t \in Edits : Edit(t)

Spec == Init /\ [][Next]_vars
-----------------------------------------------------------------------------
(***************************************************************************)
(* Properties.                                                             *)
(***************************************************************************)
\* Whatever reloads, restarts and late instance starts happened, every live
\* KeyMint instance works with the patch levels of the runtime configuration.
InstancesFollowRuntime ==
    \A l \in Levels : ta[l] # None => run # None /\ ta[l] = Wire(run.trust)

\* "Record current default security-patch properties": a snapshot of the
\* running build holds that build's own values, so that `auto` brings them back.
\* Left out: a snapshot taken in a boot in which a date edited by hand was
\* written to the property with nothing saved: there the web UI takes the written date for the default.
DefaultsKept ==
    Current /\ ~snap.byHand =>
        snap.system = Defaults.system /\ snap.vendor = Defaults.vendor

\* "Never serve keys using an unpersisted auto value: changing this input on a
\* later start makes existing blobs unreadable": the boot key served never
\* changes, whatever start-ups were killed and wherever the key came from,
\* unless the config asks for a "random" one, which is new at every start.
BootKeyStable ==
    [][vb.served # NoKey /\ vb.spec # Random => vb'.served = vb.served]_vars
=============================================================================
