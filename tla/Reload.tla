------------------------------- MODULE Reload -------------------------------
(***************************************************************************)
(* POST /api/reload and `lens reload`: the layered configuration           *)
(* (internal/config) is read again and compared with the one serve booted  *)
(* with, and the two settings that may change without a restart are handed *)
(* to the live configuration.                                              *)
(*                                                                         *)
(* Concurrency.  Every route call is a goroutine.  The live configuration  *)
(* has a mutex; the boot configuration, which the route reads and writes,  *)
(* has none: two calls write its fields in any order.                      *)
(*                                                                         *)
(* Data.  ProxyAddr stands for the fifteen settings that need a restart.   *)
(* Flags and environment, one layer here, are those serve was started      *)
(* with.                                                                   *)
(***************************************************************************)
EXTENDS Naturals

CONSTANTS
  Calls,     \* calls of the route
  Days,      \* values of the two settings besides 0, which turns a feature off
  Flags,     \* settings given as flags, with their values
  MaxEdits   \* bound: changes of the configuration file

Keys == {"RetentionDays", "HotDays", "ProxyAddr"}
LiveKeys == {"RetentionDays", "HotDays"}
OtherAddr == 1   \* not the default

Defaults == [k \in Keys |-> 0]

\* A later layer wins where it says something.
Overlay(config, layer) ==
  [k \in DOMAIN config |-> IF k \in DOMAIN layer THEN layer[k] ELSE config[k]]

LoadConfig(file) == Overlay(Overlay(Defaults, file), Flags)

Validate(config) ==
  config["HotDays"] > 0 /\ config["RetentionDays"] > 0
    => config["HotDays"] <= config["RetentionDays"]

\* What one layer may say.
Layers == {l \in UNION {[K -> Days \cup {OtherAddr}] : K \in SUBSET Keys} :
             /\ "ProxyAddr" \in DOMAIN l => l["ProxyAddr"] = OtherAddr
             /\ \A k \in DOMAIN l \cap LiveKeys : l[k] \in Days}

VARIABLES
  conf,     \* the configuration file: a layer, or the malformed one
  edits,    \* changes of it so far
  boot,     \* api.boot
  live,     \* LiveConfig: the two settings
  call,     \* each route call: [at, next, applied, restart]
  busy,     \* history: two calls of the route overlapped
  asked     \* history: the two settings the last answered call loaded

reloadVars == <<conf, edits, boot, live, call, busy, asked>>

Malformed == [k \in {"garbage"} |-> 0]

Waiting == [at |-> "idle", next |-> Defaults, applied |-> {}, restart |-> {}]

\* Serve does not start on a configuration that contradicts itself.
ReloadInit ==
  /\ conf = [k \in {} |-> 0] /\ edits = 0
  /\ boot = LoadConfig(conf) /\ Validate(boot) /\ live = [k \in LiveKeys |-> boot[k]]
  /\ call = [x \in Calls |-> Waiting]
  /\ busy = FALSE /\ asked = live

UnderWay(x) == call[x].at # "idle"

EditFile ==
  /\ edits < MaxEdits /\ edits' = edits + 1
  /\ conf' \in Layers \cup {Malformed}
  /\ UNCHANGED <<boot, live, call, busy, asked>>

\* A file that does not parse, or whose values contradict, is a 400.
LoadAndValidate(x) ==
  /\ call[x].at = "idle"
  /\ IF conf = Malformed \/ ~ Validate(LoadConfig(conf))
     THEN UNCHANGED call
     ELSE call' = [call EXCEPT ![x].at = "diff", ![x].next = LoadConfig(conf)]
  /\ busy' = (busy \/ \E y \in Calls \ {x} : UnderWay(y) /\ UnderWay(x)')
  /\ UNCHANGED <<conf, edits, boot, live, asked>>

\* diffReload; nothing to apply leaves boot and live alone.
Diff(x) ==
  /\ call[x].at = "diff"
  /\ LET differ == {k \in Keys : boot[k] # call[x].next[k]}
     IN  call' = [call EXCEPT ![x].applied = differ \cap LiveKeys,
                              ![x].restart = differ \ LiveKeys,
                              ![x].at = IF differ \cap LiveKeys = {} THEN "answer" ELSE "apply"]
  /\ UNCHANGED <<conf, edits, boot, live, busy, asked>>

\* LiveConfig.Apply: both under one lock.
ApplyLive(x) ==
  /\ call[x].at = "apply"
  /\ live' = [k \in LiveKeys |-> call[x].next[k]]
  /\ call' = [call EXCEPT ![x].at = "bootRetention"]
  /\ UNCHANGED <<conf, edits, boot, busy, asked>>

SetBoot(x, from, key, to) ==
  /\ call[x].at = from /\ call' = [call EXCEPT ![x].at = to]
  /\ boot' = [boot EXCEPT ![key] = call[x].next[key]]
  /\ UNCHANGED <<conf, edits, live, busy, asked>>

BootRetention(x) == SetBoot(x, "bootRetention", "RetentionDays", "bootHot")

\* [mutant] the new value is applied and not remembered.
BootHotForgotten(x) ==
  /\ call[x].at = "bootHot" /\ call' = [call EXCEPT ![x].at = "answer"]
  /\ UNCHANGED <<conf, edits, boot, live, busy, asked>>

BootHot(x) == SetBoot(x, "bootHot", "HotDays", "answer")

\* The answer names what was applied and what needs a restart.
AnswerReload(x) ==
  /\ call[x].at = "answer" /\ call' = [call EXCEPT ![x] = Waiting]
  /\ asked' = [k \in LiveKeys |-> call[x].next[k]]
  /\ UNCHANGED <<conf, edits, boot, live, busy>>

ReloadNext ==
  \/ EditFile
  \/ \E x \in Calls : \/ LoadAndValidate(x) \/ Diff(x) \/ ApplyLive(x) \/ BootRetention(x)
                      \/ BootHot(x) \/ AnswerReload(x)

ReloadSpec == ReloadInit /\ [][ReloadNext]_reloadVars

----------------------------------------------------------------------------
(* Properties.                                                             *)

\* The live settings never contradict each other, however calls overlap.
\* Between calls that do not overlap they are those of the file the last
\* answered call loaded, and the boot configuration says so too: the next
\* call's comparison finds every change.
ReloadTakesEffect ==
  /\ Validate(live)
  /\ ~ busy /\ (\A x \in Calls : ~ UnderWay(x)) =>
       \A k \in LiveKeys : live[k] = asked[k] /\ boot[k] = asked[k]
=============================================================================
