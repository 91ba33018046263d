---------------------------- MODULE ConfigChannel ----------------------------
(***************************************************************************)
(* What CONFIG-PARTITION.md and docs/RO-ROOT.md promise of the config      *)
(* channel, with no partitions, mounts or boot script: a staged payload    *)
(* is a one-shot message.  It disappears only once the filesystem carries  *)
(* all of it; until then it is still there to be applied again.  A sealed  *)
(* system changes neither the filesystem nor the message, and nothing      *)
(* changes without power except by the wizard's own hand.                  *)
(***************************************************************************)
CONSTANTS Keys, Vals, Baked, Omit, Payloads, None

VARIABLES
  fs,      \* the value of each key in the root filesystem
  staged,  \* the valid payload waiting in cache, or None
  phase    \* off, booting, sealed (overlay), open (direct-rw) or halted

vars == <<fs, staged, phase>>

Phases == {"off", "booting", "sealed", "open", "halted"}

Carries(f, p) == \A k \in Keys : p[k] # Omit => f[k] = p[k]

Init ==
  /\ fs = [k \in Keys |-> Baked]
  /\ staged = None
  /\ phase = "off"

\* The wizard, in fastboot: stage a payload, spoil one (a flash cut short), or
\* write a new rootfs.
Stage    == phase = "off" /\ staged' \in Payloads \cup {None} /\ UNCHANGED <<fs, phase>>
Reflash  == phase = "off" /\ fs' = [k \in Keys |-> Baked] /\ UNCHANGED <<staged, phase>>

\* The applier writes one key of the payload.
Apply(k) ==
  /\ phase \in {"booting", "open"}
  /\ staged # None /\ staged[k] # Omit
  /\ fs' = [fs EXCEPT ![k] = staged[k]]
  /\ UNCHANGED <<staged, phase>>

\* The payload is invalidated, last.
Consume ==
  /\ phase \in {"booting", "open"}
  /\ staged # None /\ Carries(fs, staged)
  /\ staged' = None
  /\ UNCHANGED <<fs, phase>>

\* Permanent writes, in maintenance mode only.
Maintain(k) ==
  /\ phase = "open"
  /\ \E v \in Vals : fs' = [fs EXCEPT ![k] = v]
  /\ UNCHANGED <<staged, phase>>

\* Power-on, the outcome of the boot, and the way down.
Successors(q) ==
  CASE q = "off"     -> {"booting"}
    [] q = "booting" -> {"sealed", "open", "halted", "off"}
    [] OTHER         -> {"off"}

Move == phase' \in Successors(phase) /\ UNCHANGED <<fs, staged>>

Next ==
  \/ Stage \/ Reflash \/ Consume \/ Move
  \/ \E k \in Keys : Apply(k) \/ Maintain(k)

Spec == Init /\ [][Next]_vars

=============================================================================
