----------------------------- MODULE UbootWatch -----------------------------
(***************************************************************************)
(* smoke/uboot_watch.py: the watcher that polls the UART probe over HTTP,  *)
(* stops U-Boot's autoboot and types `fastboot 0`.                         *)
(*                                                                         *)
(* The console text is a sequence of cells: B1 B2 is "Hit any key to stop  *)
(* autoboot", F is "fastboot" or "Listening for", T is anything else.  The *)
(* panel is external; only what the watcher's keys do to it is modelled.   *)
(* age is now - phase_t, in units in which a pass of the loop takes at     *)
(* least one; the handlers set phase_t to the `now` from before they ran.  *)
(***************************************************************************)
EXTENDS Integers, Sequences, SequencesExt

CONSTANTS
  BootLog,             \* what the panel prints until it waits for a key
  Keys,                \* 120: writes of the ^C spam
  TrimAt, TrimTo,      \* 16384 and 8192: buf is cut from one to the other
  MaxPass,             \* the longest a pass of the loop takes
  SpamTime, TypeTime,  \* how long the handlers take: 3 s and 0.6 s
  ShortWait, LongWait, \* 1.0 s and 8.0 s
  MaxFaults            \* lost reads, failed writes, late keys, power cycles

Cells == {"T", "B1", "B2", "F"}

ASSUME TrimAssumption ==
  /\ BootLog \in Seq(Cells)
  /\ {Keys, TrimAt, TrimTo, MaxPass} \subseteq Nat \ {0}
  /\ {SpamTime, TypeTime, ShortWait, LongWait, MaxFaults} \subseteq Nat
  /\ TrimTo <= TrimAt

VARIABLES
  panel,    \* "off", "delay", "prompt", "fastboot" or "os"
  line,     \* printed by the panel, not yet read from the probe
  pc, phase, age, buf,
  keys,     \* writes of the current handler that are done
  seen,     \* history: what the reads returned in wait_uboot
  big,      \* history: the most that one of them returned
  faults

history == <<seen, big>>
vars == <<panel, line, pc, phase, age, buf, keys, seen, big, faults>>

Phases == <<"wait_uboot", "at_uboot", "fastboot_sent", "idle">>

Init ==
  /\ panel = "off" /\ line = <<>>
  /\ pc = "read" /\ phase = "wait_uboot" /\ age = 0 /\ buf = <<>>
  /\ keys = 0 /\ seen = <<>> /\ big = 0 /\ faults = 0

Fault == faults < MaxFaults /\ faults' = faults + 1

-----------------------------------------------------------------------------
(* The panel                                                               *)

PowerUp ==
  /\ panel = "off"
  /\ panel' = "delay" /\ line' = line \o BootLog
  /\ UNCHANGED <<pc, phase, age, buf, keys, history, faults>>

\* The boot delay passes without a key.
Autoboot ==
  /\ panel = "delay" /\ Fault
  /\ panel' = "os" /\ line' = Append(line, "T")
  /\ UNCHANGED <<pc, phase, age, buf, keys, history>>

PowerCycle ==
  /\ panel # "off" /\ Fault
  /\ panel' = "off"
  /\ UNCHANGED <<line, pc, phase, age, buf, keys, history>>

-----------------------------------------------------------------------------
(* The watcher                                                             *)

\* Mutant: The start of buf is kept instead of its end.
TrimEnd(b) == IF Len(b) > TrimAt THEN SubSeq(b, 1, TrimTo) ELSE b

\* Mutant: buf is never trimmed.
TrimNone(b) == b

Trim(b) ==
  IF Len(b) > TrimAt THEN SubSeq(b, Len(b) - TrimTo + 1, Len(b)) ELSE b

Older(d) == IF age + d > LongWait + 1 THEN LongWait + 1 ELSE age + d

\* The next n cells leave the probe, the whole body of its answer: ser_read
\* ignores the size it is asked for. An exception counts as no data, although
\* the text was handed over.
ser_read(n, data) ==
  /\ line' = SubSeq(line, n + 1, Len(line))
  /\ \/ data = SubSeq(line, 1, n) /\ UNCHANGED faults
     \/ n > 0 /\ data = <<>> /\ Fault

Record(data) ==
  IF phase = "wait_uboot"
    THEN /\ seen' = seen \o data
         /\ big' = IF Len(data) > big THEN Len(data) ELSE big
    ELSE UNCHANGED history

Read ==
  /\ pc = "read"
  /\ \E n \in 0..Len(line), d \in 1..MaxPass :
       \E data \in {SubSeq(line, 1, n), <<>>} :
         /\ ser_read(n, data)
         /\ age' = Older(d)
         /\ Record(data)
         /\ buf' = Trim(buf \o data)
  /\ pc' = "act"
  /\ UNCHANGED <<panel, phase, keys>>

BannerAt(s, i) == s[i] = "B1" /\ s[i + 1] = "B2"

Banner(s) == \E i \in 1..(Len(s) - 1) : BannerAt(s, i)

\* Mutant: The answer alone ends the last phase.
DueAnswered ==
  CASE phase = "wait_uboot"    -> Banner(buf)
    [] phase = "at_uboot"      -> age > ShortWait
    [] phase = "fastboot_sent" -> \E i \in DOMAIN buf : buf[i] = "F"
    [] OTHER                   -> FALSE

\* Mutant: The wait at the prompt is compared the wrong way round.
DueEarly ==
  CASE phase = "wait_uboot"    -> Banner(buf)
    [] phase = "at_uboot"      -> age < ShortWait
    [] phase = "fastboot_sent" -> age > LongWait \/ \E i \in DOMAIN buf : buf[i] = "F"
    [] OTHER                   -> FALSE

\* The condition under which the current phase is left in this pass.
Due ==
  CASE phase = "wait_uboot"    -> Banner(buf)
    [] phase = "at_uboot"      -> age > ShortWait
    [] phase = "fastboot_sent" -> age > LongWait \/ \E i \in DOMAIN buf : buf[i] = "F"
    [] OTHER                   -> FALSE

\* Mutant: The banner goes straight to at_uboot.
SeeBannerNoSpam ==
  /\ pc = "act" /\ phase = "wait_uboot" /\ Due
  /\ phase' = "at_uboot" /\ age' = 0 /\ pc' = "read"
  /\ UNCHANGED <<panel, line, buf, keys, history, faults>>

\* wait_uboot: the banner starts the ^C spam.
SeeBanner ==
  /\ pc = "act" /\ phase = "wait_uboot" /\ Due
  /\ pc' = "spam" /\ keys' = 0
  /\ UNCHANGED <<panel, line, phase, age, buf, history, faults>>

\* One ser.write of the spam; a key in the boot delay stops the autoboot.
SpamKey ==
  /\ pc = "spam" /\ keys < Keys
  /\ keys' = keys + 1
  /\ panel' = IF panel = "delay" THEN "prompt" ELSE panel
  /\ line' = IF panel \in {"delay", "prompt"} THEN Append(line, "T") ELSE line
  /\ UNCHANGED <<pc, phase, age, buf, history, faults>>

\* The drain, AT_UBOOT_PROMPT, and phase_t from before the spam.
SpamDone ==
  /\ pc = "spam" /\ keys = Keys
  /\ \E n \in 0..Len(line) : line' = SubSeq(line, n + 1, Len(line))
  /\ phase' = "at_uboot" /\ age' = SpamTime /\ buf' = <<>>
  /\ pc' = "read"
  /\ UNCHANGED <<panel, keys, history, faults>>

\* at_uboot, time-driven.
StartTyping ==
  /\ pc = "act" /\ phase = "at_uboot" /\ Due
  /\ pc' = "type" /\ keys' = 0
  /\ UNCHANGED <<panel, line, phase, age, buf, history, faults>>

\* The three writes: returns, `fastboot 0`, return.  U-Boot or a tty echoes.
TypeKey ==
  /\ pc = "type" /\ keys < 3
  /\ keys' = keys + 1
  /\ panel' = IF keys = 1 /\ panel = "prompt" THEN "fastboot" ELSE panel
  /\ line' = IF keys = 1 /\ panel \in {"prompt", "os"} THEN Append(line, "F") ELSE line
  /\ UNCHANGED <<pc, phase, age, buf, history, faults>>

TypeDone ==
  /\ pc = "type" /\ keys = 3
  /\ phase' = "fastboot_sent" /\ age' = TypeTime /\ buf' = <<>>
  /\ pc' = "read"
  /\ UNCHANGED <<panel, line, keys, history, faults>>

\* fastboot_sent: the answer, or eight seconds without one.
Report ==
  /\ pc = "act" /\ phase = "fastboot_sent" /\ Due
  /\ phase' = "idle" /\ age' = 0 /\ pc' = "read"
  /\ UNCHANGED <<panel, line, buf, keys, history, faults>>

Sleep ==
  /\ pc = "act" /\ ~Due
  /\ pc' = "read"
  /\ UNCHANGED <<panel, line, phase, age, buf, keys, history, faults>>

\* ser.write has no handler: a refused or late answer of the probe ends the
\* watcher.
WriteRaises ==
  /\ pc \in {"spam", "type"} /\ Fault
  /\ pc' = "dead"
  /\ UNCHANGED <<panel, line, phase, age, buf, keys, history>>

Watcher ==
  \/ Read \/ SeeBanner \/ SpamKey \/ SpamDone
  \/ StartTyping \/ TypeKey \/ TypeDone \/ Report \/ Sleep

Dead == pc = "dead" /\ UNCHANGED vars

Next == Watcher \/ WriteRaises \/ Dead \/ PowerUp \/ Autoboot \/ PowerCycle

Spec == Init /\ [][Next]_vars

\* The watcher's loop runs on, reads return what is there in the end, and the
\* panel is powered.
FairSpec ==
  /\ Spec
  /\ WF_vars(Watcher) /\ WF_vars(PowerUp)
  /\ SF_vars(Read /\ line' # line /\ UNCHANGED faults)

-----------------------------------------------------------------------------

\* The buffer stays within its limit, the phases and counters in their ranges.
TypeOK ==
  /\ panel \in {"off", "delay", "prompt", "fastboot", "os"}
  /\ {line, buf, seen} \subseteq Seq(Cells) /\ Len(buf) <= TrimAt
  /\ pc \in {"read", "act", "spam", "type", "dead"}
  /\ phase \in Range(Phases) /\ age \in Nat /\ big \in Nat
  /\ keys \in 0..(IF Keys > 3 THEN Keys ELSE 3) /\ faults \in 0..MaxFaults

\* A banner that was read while the watcher waits for one starts the spam,
\* however the reads cut the text, but for one case: a single read brought at
\* least TrimTo cells, and as many follow the banner, which the trim of buf threw
\* away before the watcher looked for it.
BannerNotMissed ==
  phase = "wait_uboot" /\ pc = "read" =>
    \A i \in 1..(Len(seen) - 1) :
      BannerAt(seen, i) => big >= TrimTo /\ i + TrimTo <= Len(seen)

\* Without a lost read, a failed write, a key that comes too late or a power
\* cycle, AT_UBOOT_PROMPT and IN_FASTBOOT_MODE are true when they are written;
\* none of the phases looks at the panel's answer before it goes on.
ReportsTrue ==
  faults = 0 =>
    /\ phase = "at_uboot" /\ pc # "type" => panel = "prompt"
    /\ phase \in {"fastboot_sent", "idle"} => panel = "fastboot"

\* Having seen the banner the watcher always gets to idle, or dies of a write
\* the probe refused: no phase waits for text that was lost.
NeverStuck == phase # "wait_uboot" ~> (phase = "idle" \/ pc = "dead")

\* If nothing goes wrong, a powered panel ends in fastboot and is reported.
ReachesFastboot == [](faults = 0) => <>(phase = "idle" /\ panel = "fastboot")
=============================================================================
