---------------------------- MODULE MCCatchUboot ----------------------------
(* Small streams for CatchUboot; text is 5, "u-boot" 6 7 and "=> " 8.         *)
EXTENDS CatchUboot

frame(op, ext, data) == [op |-> op, ext |-> ext, data |-> data]

\* A prompt cut by a ping; an extended frame behind which rx_buf is trimmed; a
\* close frame after half a prompt; a "=> " that is no prompt.
MCStreams ==
  {<<frame(2, FALSE, <<5, 6>>), frame(9, FALSE, <<>>), frame(2, FALSE, <<7, 8>>)>>,
   <<frame(2, TRUE, <<5, 5>>), frame(0, FALSE, <<5, 6>>), frame(2, FALSE, <<7, 8, 5>>)>>,
   <<frame(1, FALSE, <<5>>), frame(2, FALSE, <<6, 7>>), frame(8, FALSE, <<3>>)>>,
   <<frame(2, FALSE, <<5, 8, 5>>)>>}

MCBurst == <<130, 2, 3>>
=============================================================================
