----------------------- MODULE ServerDeviceRefinement -----------------------
(***************************************************************************)
(* As long as nobody else writes to the device, threads and driver         *)
(* together implement LineService.                                         *)
(***************************************************************************)
EXTENDS ServerDevice, AesdCharRefinement

\* What a client's message may add, received in part or whole: it ends at the first
\* NUL, and a text with the seek command is not written.
Texts ==
  {text \in UNION {{UpToNul(SubSeq(s, 1, n)) : n \in 0 .. Len(s)} : s \in Sends} :
     \A i \in 1 .. Len(text) : text[i] # SEEK}

\* The client's write or ioctl has had its effect, and the reply is not out; it
\* never will be after a crash in echo_buffer.
BeingServed(c) ==
  \/ stage[c] = "device" /\ pc[c] \in {"out", "done"} /\ ret[c] >= 0
  \/ stage[c] \in {"echo", "reply"}
  \/ stage[c] = "crashed" /\ fileBuffer[c] = NULL

Turn == IF \E c \in Clients : BeingServed(c)
        THEN CHOOSE c \in Clients : BeingServed(c) ELSE NULL

\* Where the echo began: the position, less what has been read since.
EchoFrom(c) ==
  f_pos[c] - Len(ubuf[c]) - (IF fileBuffer[c] = NULL THEN 0 ELSE Len(fileBuffer[c]))

From == IF Turn = NULL THEN 0 ELSE EchoFrom(Turn)

LS == INSTANCE LineService WITH log <- LogOfRing, pending <- PendingOfBuffer,
                                turn <- Turn, from <- From, answer <- reply,
                                Messages <- Texts

\* A client's line and the answer to it are one exchange: no other client's line
\* comes between, the answer is all that the device holds, from its start or
\* from the place the client sought, and a line that is not accepted leaves no
\* trace (threading.c:24-35, client.c:126-263).
ImplementsLineService == LS!Spec

SL == INSTANCE CommandLog WITH log <- LogOfRing, pending <- PendingOfBuffer,
                               pos <- f_pos, got <- ubuf, WriteData <- Texts,
                               ReadCounts <- ReadCounts \cup {FSIZE}

\* To everybody who has the device open, the threads and other programs, it is the
\* log of AesdCharRefinement though all of the server's threads write to it: what
\* aesd_write computes before its lock is guarded by fileMutex (threading.c:24).
ServerKeepsLog == SL!Spec
=============================================================================
