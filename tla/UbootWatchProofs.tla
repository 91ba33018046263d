-------------------------- MODULE UbootWatchProofs --------------------------
(***************************************************************************)
(* Proofs about UbootWatch, for every boot log, reads of every size, every *)
(* pair of trim limits that TrimAssumption allows, every timing and every  *)
(* number of faults.                                                       *)
(***************************************************************************)
EXTENDS UbootWatch, TLAPS

(***************************************************************************)
(* The inductive invariant, in parts.                                      *)
(***************************************************************************)

\* Until the banner is found buf is the end of everything that was read, and it
\* is never empty once anything was.
KeepsEnd ==
  phase = "wait_uboot" =>
    /\ Len(buf) <= Len(seen) /\ (seen # <<>> => buf # <<>>)
    /\ \A i \in 1 .. Len(buf) : buf[i] = seen[Len(seen) - Len(buf) + i]

\* What BannerNotMissed allows: every banner that was read is TrimTo cells back.
Excused(s, most) ==
  \A i \in 1 .. Len(s) - 1 : BannerAt(s, i) => most >= TrimTo /\ i + TrimTo <= Len(s)

\* A banner among what was read is in buf when the pass looks there, unless it
\* is excused.
Looks ==
  phase = "wait_uboot" /\ pc = "act" => Banner(buf) \/ Excused(seen, big)

\* Where the panel is at each stage of the watcher while nothing has gone wrong.
InStep ==
  faults = 0 =>
    /\ pc # "dead"
    /\ panel = "off" => phase = "wait_uboot" /\ line = <<>> /\ seen = <<>> /\ buf = <<>>
    /\ phase = "wait_uboot" => pc \in {"read", "act", "spam"}
    /\ phase = "wait_uboot" /\ pc # "spam" => panel \in {"off", "delay"}
    /\ phase = "wait_uboot" /\ pc = "spam" => panel = IF keys = 0 THEN "delay" ELSE "prompt"
    /\ phase = "at_uboot" => pc \in {"read", "act", "type"}
    /\ phase = "at_uboot" => panel = IF pc = "type" /\ keys > 1 THEN "fastboot" ELSE "prompt"
    /\ phase \in {"fastboot_sent", "idle"} => pc \in {"read", "act"} /\ panel = "fastboot"

\* The handlers belong to the phases that start them, and count their writes.
Handlers ==
  /\ pc = "spam" => phase = "wait_uboot" /\ keys <= Keys
  /\ pc = "type" => phase = "at_uboot" /\ keys <= 3

IInv == TypeOK /\ KeepsEnd /\ Looks /\ BannerNotMissed /\ InStep /\ Handlers

-----------------------------------------------------------------------------
(***************************************************************************)
(* Reads and the trim.                                                     *)
(***************************************************************************)

\* Every cell of b is the cell of s at the same distance from the end.
EndOf(b, s) ==
  /\ Len(b) <= Len(s) /\ (s # <<>> => b # <<>>)
  /\ \A i \in 1 .. Len(b) : b[i] = s[Len(s) - Len(b) + i]

LEMMA Sizes ==
  /\ TrimAt \in Nat \ {0} /\ TrimTo \in Nat \ {0}
  /\ TrimTo <= TrimAt /\ Keys \in Nat \ {0} /\ MaxFaults \in Nat /\ LongWait \in Nat
  /\ SpamTime \in Nat /\ TypeTime \in Nat /\ MaxPass \in Nat
  BY TrimAssumption

\* The trim keeps the end of the buffer, at least TrimTo cells of it.
LEMMA TrimEnds ==
  ASSUME NEW b \in Seq(Cells)
  PROVE  /\ Trim(b) \in Seq(Cells) /\ Len(Trim(b)) <= TrimAt
         /\ Len(Trim(b)) = IF Len(b) > TrimAt THEN TrimTo ELSE Len(b)
         /\ \A i \in 1 .. Len(Trim(b)) : Trim(b)[i] = b[Len(b) - Len(Trim(b)) + i]
<1>0. Len(b) \in Nat
  OBVIOUS
<1>1. CASE Len(b) > TrimAt
  <2>1. Trim(b) = SubSeq(b, Len(b) - TrimTo + 1, Len(b))
    BY <1>1 DEF Trim
  <2>2. Len(b) - TrimTo + 1 \in 1 .. Len(b) + 1
    BY <1>0, <1>1, Sizes
  <2>3. Trim(b) \in Seq(Cells) /\ Len(Trim(b)) = TrimTo
    BY <1>0, <1>1, <2>1, <2>2, Sizes
  <2>4. \A i \in 1 .. TrimTo : Trim(b)[i] = b[Len(b) - TrimTo + i]
    BY <1>0, <1>1, <2>1, <2>2, Sizes
  <2> QED
    BY <1>1, <2>3, <2>4, Sizes
<1>2. CASE ~(Len(b) > TrimAt)
  <2>1. Trim(b) = b
    BY <1>2 DEF Trim
  <2> QED
    BY <1>0, <1>2, <2>1, Sizes
<1> QED
  BY <1>1, <1>2

\* A read keeps buf the end of what was seen, and a banner that was not there
\* before the read is in the trimmed buffer, even when the read only brought its
\* second half, or the read brought TrimTo cells and as many follow the banner.
LEMMA ReadEnds ==
  ASSUME NEW b \in Seq(Cells), NEW s \in Seq(Cells), NEW d \in Seq(Cells),
         EndOf(b, s)
  PROVE  /\ EndOf(Trim(b \o d), s \o d)
         /\ \A i \in 1 .. Len(s \o d) - 1 :
              BannerAt(s \o d, i) =>
                \/ i + 1 <= Len(s) /\ BannerAt(s, i)
                \/ Banner(Trim(b \o d))
                \/ Len(d) >= TrimTo /\ i + TrimTo <= Len(s \o d)
<1> DEFINE a == b \o d
           t == Trim(a)
           w == s \o d
<1>1. /\ a \in Seq(Cells) /\ Len(a) = Len(b) + Len(d) /\ Len(a) \in Nat
      /\ w \in Seq(Cells) /\ Len(w) = Len(s) + Len(d) /\ Len(w) \in Nat
      /\ Len(b) \in Nat /\ Len(s) \in Nat /\ Len(d) \in Nat /\ Len(b) <= Len(s)
  BY DEF EndOf
<1>2. \A i \in 1 .. Len(a) : a[i] = w[Len(w) - Len(a) + i]
  <2> TAKE i \in 1 .. Len(a)
  <2>1. CASE i <= Len(b)
    <3>1. a[i] = b[i] /\ Len(w) - Len(a) + i = Len(s) - Len(b) + i
      BY <1>1, <2>1
    <3>2. w[Len(s) - Len(b) + i] = s[Len(s) - Len(b) + i]
      BY <1>1, <2>1
    <3> QED
      BY <1>1, <2>1, <3>1, <3>2 DEF EndOf
  <2>2. CASE i > Len(b)
    <3>1. a[i] = d[i - Len(b)]
      BY <1>1, <2>2
    <3>2. w[Len(w) - Len(a) + i] = d[i - Len(b)]
      BY <1>1, <2>2
    <3> QED
      BY <3>1, <3>2
  <2> QED
    BY <1>1, <2>1, <2>2
<1>3. /\ Len(t) = IF Len(a) > TrimAt THEN TrimTo ELSE Len(a)
      /\ t \in Seq(Cells) /\ Len(t) \in Nat
      /\ \A i \in 1 .. Len(t) : t[i] = a[Len(a) - Len(t) + i]
  <2>1. /\ t \in Seq(Cells)
        /\ Len(t) = IF Len(a) > TrimAt THEN TrimTo ELSE Len(a)
        /\ \A i \in 1 .. Len(t) : t[i] = a[Len(a) - Len(t) + i]
    BY <1>1, TrimEnds, Zenon
  <2>2. Len(t) \in Nat
    BY <2>1
  <2> QED
    BY <2>1, <2>2
<1>4. \A i \in 1 .. Len(t) : t[i] = w[Len(w) - Len(t) + i]
  <2> TAKE i \in 1 .. Len(t)
  <2>1. Len(a) - Len(t) + i \in 1 .. Len(a)
    BY <1>1, <1>3, Sizes
  <2>2. t[i] = w[Len(w) - Len(a) + (Len(a) - Len(t) + i)]
    BY <1>2, <1>3, <2>1
  <2>3. Len(w) - Len(a) + (Len(a) - Len(t) + i) = Len(w) - Len(t) + i
    BY <1>1, <1>3
  <2> QED
    BY <2>2, <2>3
<1>5. Len(t) <= Len(w)
  BY <1>1, <1>3, Sizes
<1>6. w # <<>> => t # <<>>
  <2>1. ASSUME Len(w) > 0 PROVE Len(t) > 0
    <3>1. Len(s) > 0 => Len(b) > 0
      BY DEF EndOf
    <3> QED
      BY <1>1, <1>3, <2>1, <3>1, Sizes
  <2> QED
    BY <1>1, <1>3, <2>1
<1>8. ASSUME NEW i \in 1 .. Len(w) - 1, i + 1 <= Len(s), BannerAt(w, i) PROVE BannerAt(s, i)
  <2>1. s[i] = w[i] /\ s[i + 1] = w[i + 1]
    BY <1>1, <1>8
  <2> QED
    BY <1>8, <2>1 DEF BannerAt
<1>9. ASSUME NEW i \in 1 .. Len(w) - 1, i >= Len(s), ~(Len(w) - i + 1 <= Len(t))
      PROVE  Len(d) >= TrimTo /\ i + TrimTo <= Len(w)
  <2>1. s # <<>> => Len(b) > 0
    BY <1>1 DEF EndOf
  <2>2. s = <<>> => Len(s) = 0
    OBVIOUS
  <2>3. Len(t) = TrimTo
    BY <1>1, <1>3, <1>9, <2>1, <2>2, Sizes
  <2> QED
    BY <1>1, <1>9, <2>3, Sizes
<1>7. ASSUME NEW i \in 1 .. Len(w) - 1, BannerAt(w, i), i >= Len(s), Len(w) - i + 1 <= Len(t)
      PROVE  Banner(t)
  <2>1. w[i] = "B1" /\ w[i + 1] = "B2"
    BY <1>7 DEF BannerAt
  <2>2. Len(w) - i + 1 <= Len(t)
    BY <1>7
  <2> DEFINE j == i - (Len(w) - Len(t))
  <2>3. j \in 1 .. Len(t) - 1 /\ Len(w) - Len(t) + j = i /\ Len(w) - Len(t) + (j + 1) = i + 1
    <3> HIDE DEF t, w
    <3>1. Len(t) \in Nat /\ Len(w) \in Nat /\ i \in 1 .. Len(w) - 1
      BY <1>1, <1>3
    <3> QED
      BY <2>2, <3>1
  <2>4. t[j] = "B1" /\ t[j + 1] = "B2"
    <3>1. j \in 1 .. Len(t) /\ j + 1 \in 1 .. Len(t)
      <4> HIDE DEF j, t
      <4> QED
        BY <1>3, <2>3
    <3> HIDE DEF j
    <3>2. t[j] = w[i] /\ t[j + 1] = w[i + 1]
      BY <1>4, <2>3, <3>1
    <3> QED
      BY <2>1, <3>2
  <2> QED
    BY <2>3, <2>4 DEF Banner, BannerAt
<1>10. EndOf(t, w)
  BY <1>4, <1>5, <1>6 DEF EndOf
<1>11. ASSUME NEW i \in 1 .. Len(w) - 1, BannerAt(w, i)
       PROVE  \/ i + 1 <= Len(s) /\ BannerAt(s, i)
              \/ Banner(t)
              \/ Len(d) >= TrimTo /\ i + TrimTo <= Len(w)
  <2>1. i + 1 <= Len(s) \/ i >= Len(s)
    BY <1>1
  <2> QED
    BY <1>7, <1>8, <1>9, <1>11, <2>1
<1> QED
  BY <1>10, <1>11

-----------------------------------------------------------------------------
(***************************************************************************)
(* The inductive invariant is preserved.                                   *)
(***************************************************************************)

LEMMA InvInit == Init => IInv
<1> SUFFICES ASSUME Init PROVE IInv
  OBVIOUS
<1>1. /\ line = <<>> /\ buf = <<>> /\ seen = <<>> /\ panel = "off" /\ pc = "read"
      /\ phase = "wait_uboot" /\ age = 0 /\ keys = 0 /\ big = 0 /\ faults = 0
  BY DEF Init
<1>2. TypeOK
  <2>1. phase \in Range(Phases)
    BY <1>1 DEF Range, Phases
  <2> QED
    BY <1>1, <2>1, Sizes DEF TypeOK
<1>3. Len(seen) = 0
  BY <1>1
<1> QED
  BY <1>1, <1>2, <1>3 DEF IInv, KeepsEnd, Looks, BannerNotMissed, InStep, Handlers

\* The range of phases, spelt out.
LEMMA PhaseRange == Range(Phases) = {"wait_uboot", "at_uboot", "fastboot_sent", "idle"}
  BY DEF Range, Phases

\* Console text stays console text.
LEMMA Cutting ==
  ASSUME NEW s \in Seq(Cells), NEW n \in 0 .. Len(s)
  PROVE  /\ SubSeq(s, n + 1, Len(s)) \in Seq(Cells) /\ SubSeq(s, 1, n) \in Seq(Cells)
         /\ Len(SubSeq(s, 1, n)) = n
  OBVIOUS

\* What a pass of the loop reads.
LEMMA ReadFacts ==
  ASSUME IInv, Read
  PROVE  \E d \in Seq(Cells) :
           /\ line = <<>> => d = <<>>
           /\ Record(d) /\ buf' = Trim(buf \o d)
           /\ line' \in Seq(Cells) /\ (line = <<>> => line' = <<>>)
           /\ age' \in Nat /\ faults' \in 0 .. MaxFaults
           /\ faults' = 0 => faults = 0
           /\ pc = "read" /\ pc' = "act" /\ UNCHANGED <<panel, phase, keys>>
<1>0. line \in Seq(Cells) /\ Len(line) \in Nat /\ age \in Nat /\ faults \in 0 .. MaxFaults
  BY DEF IInv, TypeOK
<1> PICK n \in 0 .. Len(line), e \in 1 .. MaxPass :
        \E d \in {SubSeq(line, 1, n), <<>>} :
          ser_read(n, d) /\ age' = Older(e) /\ Record(d) /\ buf' = Trim(buf \o d)
  BY DEF Read
<1>1. PICK d \in {SubSeq(line, 1, n), <<>>} :
        ser_read(n, d) /\ age' = Older(e) /\ Record(d) /\ buf' = Trim(buf \o d)
  OBVIOUS
<1>2. n \in 0 .. Len(line)
  OBVIOUS
<1>3. d \in Seq(Cells) /\ (line = <<>> => d = <<>>)
  <2>1. CASE d = <<>>
    BY <2>1, Sizes
  <2>2. CASE d = SubSeq(line, 1, n)
    <3>1. d \in Seq(Cells) /\ Len(d) = n
      BY <1>0, <1>2, <2>2, Cutting
    <3>2. line = <<>> => Len(d) = 0
      BY <1>2, <3>1
    <3> QED
      BY <1>2, <3>1, <3>2
  <2> QED
    BY <2>1, <2>2
<1>4. line' \in Seq(Cells) /\ (line = <<>> => line' = <<>>)
  <2>1. line' = SubSeq(line, n + 1, Len(line))
    BY <1>1 DEF ser_read
  <2>2. line' \in Seq(Cells)
    BY <1>0, <1>2, <2>1, Cutting
  <2>3. line = <<>> => Len(line') = 0
    BY <1>2, <2>1
  <2> QED
    BY <2>2, <2>3
<1>5. age' \in Nat
  <2>1. age' = Older(e) /\ e \in Nat
    BY <1>1, Sizes
  <2> QED
    BY <1>0, <2>1, Sizes DEF Older
<1>6. faults' \in 0 .. MaxFaults /\ (faults' = 0 => faults = 0)
  <2>1. faults' = faults \/ (faults < MaxFaults /\ faults' = faults + 1)
    BY <1>1 DEF ser_read, Fault
  <2> QED
    BY <1>0, <2>1, Sizes
<1> QED
  BY <1>1, <1>3, <1>4, <1>5, <1>6 DEF Read

LEMMA InvStep == IInv /\ [Next]_vars => IInv'
<1> SUFFICES ASSUME IInv, [Next]_vars PROVE IInv'
  OBVIOUS
<1> USE DEF IInv
<1>0. /\ line \in Seq(Cells) /\ buf \in Seq(Cells) /\ seen \in Seq(Cells)
      /\ keys \in Nat /\ faults \in Nat /\ faults <= MaxFaults /\ "T" \in Cells /\ "F" \in Cells
      /\ phase \in {"wait_uboot", "at_uboot", "fastboot_sent", "idle"}
  BY PhaseRange, Sizes DEF TypeOK, Cells
<1>1. CASE Read
  <2> PICK d \in Seq(Cells) :
        /\ line = <<>> => d = <<>>
        /\ Record(d) /\ buf' = Trim(buf \o d)
        /\ line' \in Seq(Cells) /\ (line = <<>> => line' = <<>>)
        /\ age' \in Nat /\ faults' \in 0 .. MaxFaults
        /\ faults' = 0 => faults = 0
        /\ pc = "read" /\ pc' = "act" /\ UNCHANGED <<panel, phase, keys>>
    BY <1>1, ReadFacts
  <2>1. /\ seen' \in Seq(Cells) /\ buf \o d \in Seq(Cells)
        /\ buf' \in Seq(Cells) /\ Len(buf') <= TrimAt
    <3>0. seen \o d \in Seq(Cells) /\ buf \o d \in Seq(Cells)
      BY <1>0
    <3>1. seen' \in Seq(Cells) /\ buf \o d \in Seq(Cells)
      BY <1>0, <3>0 DEF Record, history
    <3> QED
      BY <3>1, TrimEnds, Zenon
  <2>a. big \in Nat /\ big' \in Nat /\ Len(d) \in Nat
    BY DEF TypeOK, Record, history
  <2>2. TypeOK'
    BY <2>1, <2>a DEF TypeOK
  <2>3. ASSUME phase = "wait_uboot"
        PROVE  EndOf(buf', seen') /\ (Banner(buf') \/ Excused(seen', big'))
    <3>1. EndOf(buf, seen)
      BY <2>3 DEF KeepsEnd, EndOf
    <3>2. seen' = seen \o d /\ big' = IF Len(d) > big THEN Len(d) ELSE big
      BY <2>3 DEF Record
    <3>3. Excused(seen, big)
      BY <2>3 DEF BannerNotMissed, Excused, history
    <3>4. /\ EndOf(Trim(buf \o d), seen \o d)
          /\ \A i \in 1 .. Len(seen \o d) - 1 :
               BannerAt(seen \o d, i) =>
                 \/ i + 1 <= Len(seen) /\ BannerAt(seen, i)
                 \/ Banner(Trim(buf \o d))
                 \/ Len(d) >= TrimTo /\ i + TrimTo <= Len(seen \o d)
      BY <1>0, <3>1, ReadEnds
    <3>5. ASSUME NEW i \in 1 .. Len(seen') - 1, BannerAt(seen', i), ~Banner(buf')
          PROVE  big' >= TrimTo /\ i + TrimTo <= Len(seen')
      <4>1. CASE i + 1 <= Len(seen) /\ BannerAt(seen, i)
        <5>1. i \in 1 .. Len(seen) - 1
          BY <1>0, <4>1
        <5>2. big >= TrimTo /\ i + TrimTo <= Len(seen)
          BY <3>3, <4>1, <5>1 DEF Excused
        <5>3. Len(seen') = Len(seen) + Len(d) /\ Len(seen) \in Nat
          BY <1>0, <3>2
        <5> QED
          BY <2>a, <3>2, <5>1, <5>2, <5>3, Sizes
      <4>2. CASE Len(d) >= TrimTo /\ i + TrimTo <= Len(seen \o d)
        BY <2>a, <3>2, <4>2, Sizes
      <4> QED
        BY <3>2, <3>4, <3>5, <4>1, <4>2
    <3> QED
      BY <3>2, <3>4, <3>5 DEF Excused
  <2>4. KeepsEnd'
    BY <2>3 DEF KeepsEnd, EndOf
  <2>5. Looks' /\ BannerNotMissed'
    BY <2>3 DEF Looks, BannerNotMissed
  <2>6. InStep'
    <3>1. seen = <<>> /\ buf = <<>> /\ d = <<>> => seen' = <<>> /\ buf' = <<>>
      <4> SUFFICES ASSUME seen = <<>>, buf = <<>>, d = <<>> PROVE seen' = <<>> /\ buf' = <<>>
        OBVIOUS
      <4>1. seen' = <<>> /\ buf \o d = <<>> /\ Len(<<>>) = 0
        BY DEF Record, history
      <4> QED
        BY <4>1, Sizes DEF Trim
    <3> QED
      BY <3>1 DEF InStep, history
  <2>7. Handlers'
    BY DEF Handlers
  <2> QED
    BY <2>2, <2>4, <2>5, <2>6, <2>7
<1>2. CASE SeeBanner
  <2>1. /\ pc = "act" /\ phase = "wait_uboot" /\ pc' = "spam" /\ keys' = 0 /\ Banner(buf)
        /\ UNCHANGED <<panel, line, phase, age, buf, history, faults>>
    BY <1>2 DEF SeeBanner, Due
  <2>2. TypeOK' /\ Handlers'
    BY <2>1, Sizes DEF TypeOK, Handlers, history
  <2>3. KeepsEnd' /\ Looks' /\ BannerNotMissed'
    BY <2>1 DEF KeepsEnd, Looks, BannerNotMissed, Excused, history
  <2>4. buf # <<>>
    BY <2>1 DEF Banner
  <2>5. InStep'
    BY <2>1, <2>4 DEF InStep, history
  <2> QED
    BY <2>2, <2>3, <2>5
<1>3. CASE SpamKey
  <2>1. /\ pc = "spam" /\ keys < Keys /\ keys' = keys + 1
        /\ panel' = IF panel = "delay" THEN "prompt" ELSE panel
        /\ line' = IF panel \in {"delay", "prompt"} THEN Append(line, "T") ELSE line
        /\ UNCHANGED <<pc, phase, age, buf, history, faults>>
    BY <1>3 DEF SpamKey
  <2>2. line' \in Seq(Cells)
    BY <1>0, <2>1
  <2>3. TypeOK' /\ Handlers'
    BY <1>0, <2>1, <2>2, Sizes DEF TypeOK, Handlers, history
  <2>4. KeepsEnd' /\ Looks' /\ BannerNotMissed'
    BY <2>1 DEF KeepsEnd, Looks, BannerNotMissed, Excused, history
  <2>5. keys' # 0
    BY <1>0, <2>1
  <2>6. InStep'
    BY <2>1, <2>5 DEF InStep, Handlers, history
  <2> QED
    BY <2>3, <2>4, <2>6
<1>4. CASE SpamDone
  <2>1. /\ pc = "spam" /\ keys = Keys /\ phase' = "at_uboot" /\ pc' = "read"
        /\ age' = SpamTime /\ buf' = <<>> /\ UNCHANGED <<panel, keys, history, faults>>
    BY <1>4 DEF SpamDone
  <2>2. line' \in Seq(Cells)
    BY <1>0, <1>4, Cutting DEF SpamDone
  <2>3. TypeOK' /\ Handlers'
    BY <1>0, <2>1, <2>2, Sizes, PhaseRange DEF TypeOK, Handlers, history
  <2>4. KeepsEnd' /\ Looks' /\ BannerNotMissed'
    BY <2>1 DEF KeepsEnd, Looks, BannerNotMissed, Excused, history
  <2>5. keys # 0
    BY <2>1, Sizes
  <2>6. InStep'
    BY <2>1, <2>5 DEF InStep, Handlers, history
  <2> QED
    BY <2>3, <2>4, <2>6
<1>5. CASE StartTyping
  <2>1. /\ pc = "act" /\ phase = "at_uboot" /\ pc' = "type" /\ keys' = 0
        /\ UNCHANGED <<panel, line, phase, age, buf, history, faults>>
    BY <1>5 DEF StartTyping
  <2>2. TypeOK' /\ Handlers'
    BY <2>1, Sizes DEF TypeOK, Handlers, history
  <2>3. KeepsEnd' /\ Looks' /\ BannerNotMissed'
    BY <2>1 DEF KeepsEnd, Looks, BannerNotMissed, Excused, history
  <2>4. InStep'
    BY <2>1 DEF InStep, history
  <2> QED
    BY <2>2, <2>3, <2>4
<1>6. CASE TypeKey
  <2>1. /\ pc = "type" /\ keys < 3 /\ keys' = keys + 1
        /\ panel' = IF keys = 1 /\ panel = "prompt" THEN "fastboot" ELSE panel
        /\ line' = IF keys = 1 /\ panel \in {"prompt", "os"} THEN Append(line, "F") ELSE line
        /\ UNCHANGED <<pc, phase, age, buf, history, faults>>
    BY <1>6 DEF TypeKey
  <2>2. line' \in Seq(Cells)
    BY <1>0, <2>1
  <2>3. TypeOK' /\ Handlers'
    BY <1>0, <2>1, <2>2, Sizes DEF TypeOK, Handlers, history
  <2>4. KeepsEnd' /\ Looks' /\ BannerNotMissed'
    BY <2>1 DEF KeepsEnd, Looks, BannerNotMissed, Excused, history
  <2>5. (keys' > 1 <=> keys >= 1) /\ (keys > 1 <=> keys >= 1 /\ keys # 1)
    BY <1>0, <2>1
  <2>6. InStep'
    BY <2>1, <2>5 DEF InStep, Handlers, history
  <2> QED
    BY <2>3, <2>4, <2>6
<1>7. CASE TypeDone
  <2>1. /\ pc = "type" /\ keys = 3 /\ phase' = "fastboot_sent" /\ pc' = "read"
        /\ age' = TypeTime /\ buf' = <<>> /\ UNCHANGED <<panel, line, keys, history, faults>>
    BY <1>7 DEF TypeDone
  <2>2. TypeOK' /\ Handlers'
    BY <1>0, <2>1, Sizes, PhaseRange DEF TypeOK, Handlers, history
  <2>3. KeepsEnd' /\ Looks' /\ BannerNotMissed'
    BY <2>1 DEF KeepsEnd, Looks, BannerNotMissed, Excused, history
  <2>4. InStep'
    BY <2>1 DEF InStep, Handlers, history
  <2> QED
    BY <2>2, <2>3, <2>4
<1>8. CASE Report
  <2>1. /\ pc = "act" /\ phase = "fastboot_sent" /\ phase' = "idle" /\ pc' = "read" /\ age' = 0
        /\ UNCHANGED <<panel, line, buf, keys, history, faults>>
    BY <1>8 DEF Report
  <2>2. TypeOK' /\ Handlers'
    BY <2>1, PhaseRange DEF TypeOK, Handlers, history
  <2>3. KeepsEnd' /\ Looks' /\ BannerNotMissed'
    BY <2>1 DEF KeepsEnd, Looks, BannerNotMissed, Excused, history
  <2>4. InStep'
    BY <2>1 DEF InStep, history
  <2> QED
    BY <2>2, <2>3, <2>4
<1>9. CASE Sleep
  <2>1. /\ pc = "act" /\ pc' = "read" /\ (phase = "wait_uboot" => ~Banner(buf))
        /\ UNCHANGED <<panel, line, phase, age, buf, keys, history, faults>>
    BY <1>9 DEF Sleep, Due
  <2>2. TypeOK' /\ Handlers'
    BY <2>1 DEF TypeOK, Handlers, history
  <2>3. KeepsEnd' /\ Looks' /\ BannerNotMissed'
    BY <2>1 DEF KeepsEnd, Looks, BannerNotMissed, Excused, history
  <2>4. InStep'
    BY <2>1 DEF InStep, history
  <2> QED
    BY <2>2, <2>3, <2>4
<1>10. CASE WriteRaises
  <2>1. /\ pc' = "dead" /\ faults < MaxFaults /\ faults' = faults + 1
        /\ UNCHANGED <<panel, line, phase, age, buf, keys, history>>
    BY <1>10 DEF WriteRaises, Fault
  <2>2. faults' \in 0 .. MaxFaults /\ faults' # 0
    BY <1>0, <2>1, Sizes
  <2> QED
    BY <2>1, <2>2 DEF TypeOK, Handlers, KeepsEnd, Looks, BannerNotMissed, InStep, Excused, history
<1>11. CASE PowerUp
  <2>1. /\ panel = "off" /\ panel' = "delay" /\ line' = line \o BootLog
        /\ UNCHANGED <<pc, phase, age, buf, keys, history, faults>>
    BY <1>11 DEF PowerUp
  <2>2. line' \in Seq(Cells)
    BY <1>0, <2>1, TrimAssumption
  <2> QED
    BY <2>1, <2>2 DEF TypeOK, Handlers, KeepsEnd, Looks, BannerNotMissed, InStep, Excused, history
<1>12. CASE Autoboot \/ PowerCycle
  <2>1. /\ panel' \in {"os", "off"} /\ line' \in {line, Append(line, "T")}
        /\ faults < MaxFaults /\ faults' = faults + 1
        /\ UNCHANGED <<pc, phase, age, buf, keys, history>>
    BY <1>12 DEF Autoboot, PowerCycle, Fault
  <2>2. faults' \in 0 .. MaxFaults /\ faults' # 0
    BY <1>0, <2>1, Sizes
  <2>3. line' \in Seq(Cells)
    <3>1. Append(line, "T") \in Seq(Cells)
      BY <1>0
    <3> QED
      BY <1>0, <2>1, <3>1
  <2> QED
    BY <2>1, <2>2, <2>3 DEF TypeOK, Handlers, KeepsEnd, Looks, BannerNotMissed, InStep, Excused, history
<1>13. CASE UNCHANGED vars
  BY <1>13 DEF vars, TypeOK, Handlers, KeepsEnd, Looks, BannerNotMissed, InStep, Excused, history
<1> QED
  BY <1>1, <1>2, <1>3, <1>4, <1>5, <1>6, <1>7, <1>8, <1>9, <1>10, <1>11, <1>12, <1>13
  DEF Next, Watcher, Dead

-----------------------------------------------------------------------------
LEMMA Invariant == Spec => []IInv
  BY InvInit, InvStep, PTL DEF Spec

\* buf stays within its limit, and the phases and counters within their ranges.
THEOREM TypeCorrect == Spec => []TypeOK
<1>1. IInv => TypeOK
  BY DEF IInv
<1> QED
  BY <1>1, Invariant, PTL

\* A banner that was read is found, however the reads cut the text, unless one
\* read brought TrimTo cells or more and as many follow the banner.
THEOREM BannerFound == Spec => []BannerNotMissed
<1>1. IInv => BannerNotMissed
  BY DEF IInv
<1> QED
  BY <1>1, Invariant, PTL

\* While nothing goes wrong, AT_UBOOT_PROMPT and IN_FASTBOOT_MODE are only written
\* when the panel is at its prompt and in fastboot, although no phase looks.
THEOREM ReportsAreTrue == Spec => []ReportsTrue
<1>1. IInv => ReportsTrue
  BY DEF IInv, InStep, ReportsTrue
<1> QED
  BY <1>1, Invariant, PTL

=============================================================================
