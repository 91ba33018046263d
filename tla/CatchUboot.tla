----------------------------- MODULE CatchUboot -----------------------------
(***************************************************************************)
(* smoke/catch_uboot.py: one WebSocket to the network UART probe carries   *)
(* ^C bursts up and the panel's console down, until U-Boot's prompt shows. *)
(*                                                                         *)
(* Both directions are byte streams.  Downstream the probe sends the HTTP  *)
(* response (byte Resp, then EndResp) and frames <<opcode, length>> \o     *)
(* payload, with <<opcode, 126, length>> for an extended length; TCP cuts  *)
(* the stream anywhere.  The probe is a server and does not mask.  Of the  *)
(* console text only the prompt matters: U1 U2 P is "u-boot=> ", P alone a *)
(* "=> " in other text.                                                    *)
(*                                                                         *)
(* Upstream a burst is the frame Burst; on a non-blocking socket sendall   *)
(* writes what fits and raises BlockingIOError with the rest unsent.       *)
(***************************************************************************)
EXTENDS Integers, Sequences, SequencesExt

CONSTANTS
  Streams,            \* sequences of frames [op, ext, data] the probe may send
  Resp, EndResp,      \* bytes of the HTTP response
  U1, U2, P,          \* "u-boot" in two parts, "=> "
  Burst,              \* the bytes of one burst frame
  Window,             \* 200: the part of rx_buf that is searched
  TrimAt, TrimTo,     \* 16384 and 8192: rx_buf is cut from one to the other
  MaxBytes,           \* 65536: a receive call returns after so much data
  MaxLoops            \* iterations of the main loop before the deadline

ASSUME BufferAssumption ==
  /\ {Window, TrimAt, TrimTo, MaxBytes, MaxLoops} \subseteq Nat \ {0}
  /\ Window <= TrimTo /\ TrimTo <= TrimAt

Close == 8

Frame == [op : Nat, ext : BOOLEAN, data : Seq(Nat)]

\* The probe's frames are those of RFC 6455: a length of 126 or more is an
\* extended one, and nothing follows a close frame.
ASSUME FrameAssumption ==
  /\ {Resp, EndResp, U1, U2, P} \subseteq Nat /\ Resp # EndResp
  /\ Burst \in Seq(Nat)
  /\ Streams \subseteq Seq(Frame)
  /\ \A fs \in Streams : \A i \in DOMAIN fs :
       /\ fs[i].ext \/ Len(fs[i].data) < 126
       /\ fs[i].op = Close => i = Len(fs)

VARIABLES
  stream,   \* what the probe sends in this run
  wire,     \* bytes on their way to the host
  eof,      \* the probe has closed the connection
  pc, buf, out, rx_buf,
  full,     \* the last receive call ended at max_bytes, or has not happened
  got,      \* everything rx_buf was ever extended with
  up,       \* bytes the host has put on the connection
  sends, loops

vars == <<stream, wire, eof, pc, buf, out, rx_buf, full, got, up, sends, loops>>

DataOps == {0, 1, 2}
Exits == {"caught", "gaveup", "raised"}

Bytes(f) ==
  (IF f.ext THEN <<f.op, 126, Len(f.data)>> ELSE <<f.op, Len(f.data)>>) \o f.data

Wire(fs) == FlattenSeq([i \in DOMAIN fs |-> Bytes(fs[i])])

Data(fs) ==
  FlattenSeq([i \in DOMAIN fs |-> IF fs[i].op \in DataOps THEN fs[i].data ELSE <<>>])

Init ==
  /\ stream \in Streams
  /\ wire = <<Resp, EndResp>> \o Wire(stream)
  /\ eof = FALSE
  /\ pc = "handshake"
  /\ buf = <<>> /\ out = <<>> /\ rx_buf = <<>> /\ full = TRUE /\ got = <<>> /\ up = <<>>
  /\ sends = 0 /\ loops = 0

-----------------------------------------------------------------------------
(* ws_connect                                                              *)

\* Mutant: The leftover of the handshake is dropped.
HandshakeDrops ==
  /\ pc = "handshake"
  /\ \E n \in 1..Len(wire) :
       LET b == buf \o SubSeq(wire, 1, n)
           i == SelectInSeq(b, LAMBDA x : x = EndResp)
       IN  /\ wire' = SubSeq(wire, n + 1, Len(wire))
           /\ buf' = <<>>
           /\ pc' = IF i = 0 THEN "handshake" ELSE "loop"
  /\ UNCHANGED <<stream, eof, out, rx_buf, full, got, up, sends, loops>>

\* One recv of the handshake; what follows the headers is kept as leftover.
Handshake ==
  /\ pc = "handshake"
  /\ \E n \in 1..Len(wire) :
       LET b == buf \o SubSeq(wire, 1, n)
           i == SelectInSeq(b, LAMBDA x : x = EndResp)
       IN  /\ wire' = SubSeq(wire, n + 1, Len(wire))
           /\ buf' = SubSeq(b, i + 1, Len(b))
           /\ pc' = IF i = 0 THEN "handshake" ELSE "loop"
  /\ UNCHANGED <<stream, eof, out, rx_buf, full, got, up, sends, loops>>

\* The connection is closed mid-response, times out, or is not upgraded.
HandshakeFails ==
  /\ pc = "handshake"
  /\ pc' = "raised"
  /\ UNCHANGED <<stream, wire, eof, buf, out, rx_buf, full, got, up, sends, loops>>

-----------------------------------------------------------------------------
(* ws_recv_all_available                                                   *)

HeaderLen(b) == IF b[2] = 126 THEN 3 ELSE 2
PayloadLen(b) == IF b[2] = 126 THEN b[3] ELSE b[2]
\* Mutant: need() asks for one byte more than the frame has.
WholeMore(b) ==
  /\ Len(b) >= 2
  /\ Len(b) >= HeaderLen(b)
  /\ Len(b) > HeaderLen(b) + PayloadLen(b)

\* buf starts with a whole frame: every need() is met.
Whole(b) ==
  /\ Len(b) >= 2
  /\ Len(b) >= HeaderLen(b)
  /\ Len(b) >= HeaderLen(b) + PayloadLen(b)

\* select finds the socket readable: bytes have arrived, or the end has.
Readable ==
  /\ pc = "loop" /\ loops < MaxLoops
  /\ \/ \E n \in 1..Len(wire) :
          /\ buf' = buf \o SubSeq(wire, 1, n)
          /\ wire' = SubSeq(wire, n + 1, Len(wire))
     \/ wire = <<>> /\ eof /\ UNCHANGED <<buf, wire>>
  /\ pc' = "drain" /\ out' = <<>>
  /\ UNCHANGED <<stream, eof, rx_buf, full, got, up, sends, loops>>

\* One frame: the rest of it is pulled in as far as it has arrived.  A frame
\* that is not there yet stays in the leftover; so does anything behind the
\* max_bytes limit.  A close frame drops the leftover.
DrainFrame ==
  /\ pc = "drain"
  /\ \E n \in 0..Len(wire) :
       LET b == buf \o SubSeq(wire, 1, n)
           idx == HeaderLen(b)
           payload == SubSeq(b, idx + 1, idx + PayloadLen(b))
           all == IF b[1] \in DataOps THEN out \o payload ELSE out
       IN  /\ wire' = SubSeq(wire, n + 1, Len(wire))
           /\ Whole(b)
           /\ out' = all
           /\ buf' = IF b[1] = Close THEN <<>> ELSE SubSeq(b, idx + PayloadLen(b) + 1, Len(b))
           /\ full' = (b[1] # Close /\ Len(all) >= MaxBytes)
           /\ pc' = IF b[1] = Close \/ Len(all) >= MaxBytes THEN "search" ELSE "drain"
  /\ UNCHANGED <<stream, eof, rx_buf, got, up, sends, loops>>

\* Mutant: An incomplete frame is waited for without looking at the end of the stream.
DrainWaits ==
  /\ pc = "drain" /\ ~eof
  /\ \E n \in 0..Len(wire) :
       LET b == buf \o SubSeq(wire, 1, n)
       IN  ~Whole(b) /\ buf' = b /\ wire' = SubSeq(wire, n + 1, Len(wire))
  /\ full' = FALSE /\ pc' = "search"
  /\ UNCHANGED <<stream, eof, out, rx_buf, got, up, sends, loops>>

\* The socket would block, or has ended, before the frame is whole.
DrainEnd ==
  /\ pc = "drain"
  /\ \E n \in 0..Len(wire) :
       LET b == buf \o SubSeq(wire, 1, n)
       IN  ~Whole(b) /\ buf' = b /\ wire' = SubSeq(wire, n + 1, Len(wire))
  /\ full' = FALSE /\ pc' = "search"
  /\ UNCHANGED <<stream, eof, out, rx_buf, got, up, sends, loops>>

\* recv raises something other than would-block.
DrainRaises ==
  /\ pc = "drain" /\ eof
  /\ pc' = "raised"
  /\ UNCHANGED <<stream, wire, eof, buf, out, rx_buf, full, got, up, sends, loops>>

-----------------------------------------------------------------------------
(* main                                                                    *)

LastBytes(s, n) == SubSeq(s, IF Len(s) > n THEN Len(s) - n + 1 ELSE 1, Len(s))

\* Mutant: rx_buf keeps what a single receive brought.
ExtendLast(rx, data) == IF Len(data) > TrimAt THEN LastBytes(data, TrimTo) ELSE data

\* Mutant: The trim is forgotten.
ExtendAll(rx, data) == rx \o data

Extend(rx, data) ==
  IF Len(rx \o data) > TrimAt THEN LastBytes(rx \o data, TrimTo) ELSE rx \o data

Prompt(w) == \E i \in 1..(Len(w) - 2) : SubSeq(w, i, i + 2) = <<U1, U2, P>>

\* prompt_re: '^' without MULTILINE is the start of the slice.
Matches(w) == Prompt(w) \/ (w # <<>> /\ w[1] = P)

Search ==
  /\ pc = "search"
  /\ rx_buf' = Extend(rx_buf, out)
  /\ got' = got \o out
  /\ pc' = IF out # <<>> /\ Matches(LastBytes(rx_buf', Window)) THEN "caught" ELSE "send"
  /\ UNCHANGED <<stream, wire, eof, buf, out, full, up, sends, loops>>

\* select finds nothing.
NotReadable ==
  /\ pc = "loop" /\ loops < MaxLoops
  /\ pc' = "send"
  /\ UNCHANGED <<stream, wire, eof, buf, out, rx_buf, full, got, up, sends, loops>>

\* The connection takes k bytes of the one masked frame.
ws_send_binary(k) == up' = up \o SubSeq(Burst, 1, k)

\* A burst is due and goes out whole.
Send ==
  /\ pc = "send"
  /\ ws_send_binary(Len(Burst))
  /\ sends' = sends + 1 /\ loops' = loops + 1
  /\ pc' = "loop"
  /\ UNCHANGED <<stream, wire, eof, buf, out, rx_buf, full, got>>

\* BlockingIOError: the rest of the frame is not sent.
SendBlocks ==
  /\ pc = "send"
  /\ \E k \in 0..(Len(Burst) - 1) : ws_send_binary(k)
  /\ loops' = loops + 1
  /\ pc' = "loop"
  /\ UNCHANGED <<stream, wire, eof, buf, out, rx_buf, full, got, sends>>

\* It is not time for a burst yet.
SendLater ==
  /\ pc = "send"
  /\ loops' = loops + 1
  /\ pc' = "loop"
  /\ UNCHANGED <<stream, wire, eof, buf, out, rx_buf, full, got, up, sends>>

\* OSError from sendall, or the deadline.
GiveUp ==
  /\ \/ pc = "send" /\ eof
     \/ pc = "loop" /\ loops >= MaxLoops
  /\ pc' = "gaveup"
  /\ UNCHANGED <<stream, wire, eof, buf, out, rx_buf, full, got, up, sends, loops>>

\* The probe closes the connection.
ProbeCloses ==
  /\ ~eof /\ pc \notin Exits
  /\ eof' = TRUE
  /\ UNCHANGED <<stream, wire, pc, buf, out, rx_buf, full, got, up, sends, loops>>

Host ==
  \/ Handshake \/ HandshakeFails \/ Readable \/ NotReadable
  \/ DrainFrame \/ DrainEnd
  \/ Search \/ Send \/ SendBlocks \/ SendLater \/ GiveUp

Done == pc \in Exits /\ UNCHANGED vars

Next == Host \/ DrainRaises \/ ProbeCloses \/ Done

Spec == Init /\ [][Next]_vars

\* The host process keeps running.
FairSpec == Spec /\ WF_vars(Host)

-----------------------------------------------------------------------------

\* The buffers hold bytes and stay within their limits.
TypeOK ==
  /\ stream \in Streams
  /\ \A s \in {wire, buf, out, rx_buf, got, up} : s \in Seq(Nat)
  /\ Len(rx_buf) <= TrimAt
  /\ eof \in BOOLEAN /\ full \in BOOLEAN
  /\ pc \in {"handshake", "loop", "drain", "search", "send"} \cup Exits
  /\ loops \in 0..MaxLoops /\ sends \in 0..loops

\* However TCP cuts the stream, between handshake and first frame or inside a
\* header, the console text is neither lost nor reordered: some number of
\* whole frames has been taken, and leftover and wire hold the rest exactly.
StreamIntact ==
  pc \in {"loop", "drain", "search", "send", "caught", "gaveup"} =>
    \E k \in 0..Len(stream) :
      LET taken == SubSeq(stream, 1, k)
          held == IF pc \in {"drain", "search"} THEN out ELSE <<>>
      IN  /\ got \o held = Data(taken)
          /\ buf \o wire = Wire(SubSeq(stream, k + 1, Len(stream)))

\* While the tool goes on or gives up, no prompt is in the last Window bytes of
\* everything received: neither a prompt cut by frame boundaries nor the
\* trimming of rx_buf hides one.
PromptNotMissed ==
  pc \in {"loop", "send", "gaveup"} => ~Prompt(LastBytes(got, Window))

\* A receive call that stopped because the socket was empty leaves no whole
\* frame behind; one that stopped at max_bytes, and the handshake, may, and
\* then the frame waits for the next byte from the probe.
NoFrameWaits ==
  pc \in {"send", "loop"} /\ ~full =>
    \A k \in DOMAIN stream :
      buf \o wire = Wire(SubSeq(stream, k, Len(stream))) => Len(buf) < Len(Bytes(stream[k]))

\* The tool ends: no loop waits for bytes that never come, also when the probe
\* closes the connection in the middle of a frame.
Ends == <>(pc \in Exits)

\* ws_send_binary sends "a single masked binary frame": what the probe receives
\* is burst after burst, so it never takes the middle of one for a header.
ProbeInSync ==
  \A i \in DOMAIN up : up[i] = Burst[((i - 1) % Len(Burst)) + 1]
=============================================================================
