---------------------- MODULE AesdSocketFileRefinement ----------------------
(***************************************************************************)
(* The file build of the server implements FileLog.                        *)
(***************************************************************************)
EXTENDS AesdSocketFile

\* A client's line counts when the reply is sent; until then it is the last one.
Unsent(c) == stage[c] \in {"flush", "tell", "read", "send"} /\ buffer[c] # <<>>

Printed == file \o stream

LogOfFile ==
  IF \E c \in Clients : Unsent(c) THEN SubSeq(Printed, 1, Len(Printed) - 1) ELSE Printed

FL == INSTANCE FileLog WITH log <- LogOfFile, answer <- reply

\* A client's line, the reading of the file and the reply are one step to all
\* others: no timestamp and no other line comes in between, though the handler
\* flushes the stream without the mutex (client.c:77-114, aesdsocket.c:453-459).
ImplementsFileLog == FL!Spec
=============================================================================
