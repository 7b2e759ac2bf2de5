------------------------------- MODULE RowStream -------------------------------
(***************************************************************************)
(* A live view over one durable row, from the row to the reader's screen:  *)
(* the poll loop of an SSE connection (KvoxRowStreamPoller) with the       *)
(* cursor that remembers how much of the row's text it has sent            *)
(* (KvoxStreamCursor), the frames in flight, the client's reconnect loop   *)
(* that resumes from the last frame it received (connectKvoxSse), and the  *)
(* buffer the page shows (applyDelta).                                     *)
(*                                                                         *)
(* The row belongs to somebody else: the module that extends this one      *)
(* passes the row it reads to Poll, as a record with the fields `content`  *)
(* and `status`, or NoRow when it is gone.  Text is a sequence of chunks   *)
(* and an offset is a number of chunks.                                    *)
(***************************************************************************)
EXTENDS Naturals, Sequences

CONSTANTS Readers,      \* the pages that may watch
          CapPolls,     \* the duration cap of a connection, counted in polls
          Glitches      \* how often a connection may break or a read of the row fail, together

ASSUME StreamAssumption == CapPolls \in Nat /\ Glitches \in Nat

VARIABLES conn,     \* conn[r]: the server's side of r's connection
          wire,     \* wire[r]: the frames sent to r and not yet received
          page,     \* page[r]: what r's page holds
          faults    \* the glitches left

streamVars == <<conn, wire, page, faults>>

NoRow == [status |-> "gone", content |-> <<>>]

NoConn == [open |-> FALSE, offset |-> 0, age |-> 0]
NewPage == [state |-> "idle", buffer |-> <<>>, lastId |-> 0]

StreamTypeOK(Text) ==
  /\ \A r \in Readers : /\ conn[r].open \in BOOLEAN
                        /\ conn[r].offset \in Nat /\ conn[r].age \in 0..CapPolls
                        /\ page[r].state \in {"idle", "watching", "done", "error"}
                        /\ page[r].buffer \in Text /\ page[r].lastId \in Nat
                        /\ \A i \in 1..Len(wire[r]) :
                             /\ wire[r][i].kind \in {"delta", "done", "error"}
                             /\ wire[r][i].text \in Text /\ wire[r][i].offset \in Nat
  /\ faults \in 0..Glitches

StreamInit ==
  /\ conn = [r \in Readers |-> NoConn]
  /\ wire = [r \in Readers |-> <<>>]
  /\ page = [r \in Readers |-> NewPage]
  /\ faults = Glitches

Frame(kind, text, offset) == [kind |-> kind, text |-> text, offset |-> offset]

\* Mutant of Advance: one chunk a read.
AdvanceOne(offset, content) ==
  IF offset >= Len(content) THEN <<>>
  ELSE <<Frame("delta", <<content[offset + 1]>>, offset + 1)>>

\* The text the cursor at `offset` has not sent of `content`, as frames, and where it
\* stands afterwards: a cursor ahead of the content is clamped to its end.
Advance(offset, content) ==
  IF offset >= Len(content) THEN <<>>
  ELSE <<Frame("delta", SubSeq(content, offset + 1, Len(content)), Len(content))>>

\* One delta written into the buffer AT the place its offset implies.
ApplyDelta(buffer, f) ==
  LET start == f.offset - Len(f.text)
  IN  IF f.offset < Len(f.text) \/ start > Len(buffer) THEN buffer \o f.text
      ELSE SubSeq(buffer, 1, start) \o f.text

-------------------------------------------------------------------------------

\* A page opens the stream, or its loop tries again after a break: the connection
\* starts at the id of the last frame that arrived.
Connect(r) ==
  /\ page[r].state \in {"idle", "watching"} /\ ~conn[r].open /\ wire[r] = <<>>
  /\ conn' = [conn EXCEPT ![r] = [open |-> TRUE, offset |-> page[r].lastId, age |-> 0]]
  /\ page' = [page EXCEPT ![r].state = "watching"]
  /\ UNCHANGED <<wire, faults>>

\* Mutant of Ending: no duration cap.
EndingUncapped(status, age) ==
  CASE status \in {"gone", "failed"} -> "error" [] status = "succeeded" -> "done" [] OTHER -> "none"

\* The frame that ends the stream of a row, if this read of it ends it.
Ending(status, age) ==
  CASE status \in {"gone", "failed"} -> "error"
    [] status = "succeeded" -> "done"
    [] OTHER -> IF age >= CapPolls THEN "error" ELSE "none"

Older(age) == IF age < CapPolls THEN age + 1 ELSE age

\* One read of the row: the new text first, then the frame that ends the stream if the
\* row is settled or gone, or if the connection has lived as long as it may.
Poll(r, row) ==
  LET sent == Advance(conn[r].offset, row.content)
      end  == Ending(row.status, conn[r].age)
  IN  /\ conn[r].open
      /\ wire' = [wire EXCEPT ![r] =
                    @ \o (IF row.status = "gone" THEN <<>> ELSE sent)
                      \o (IF end = "none" THEN <<>>
                          ELSE <<Frame(end, <<>>, IF row.status = "gone" THEN conn[r].offset
                                                  ELSE Len(row.content))>>)]
      /\ conn' = [conn EXCEPT ![r] =
                    IF end # "none" THEN NoConn
                    ELSE [open |-> TRUE, offset |-> Len(row.content), age |-> Older(@.age)]]
      /\ UNCHANGED <<page, faults>>

\* A read that throws is logged and the next poll is scheduled: the cap is not looked
\* at on this path, so only the time passes.
PollFails(r) ==
  /\ conn[r].open /\ faults > 0
  /\ conn' = [conn EXCEPT ![r].age = Older(@)]
  /\ faults' = faults - 1
  /\ UNCHANGED <<wire, page>>

\* The next frame arrives.  A frame's id is remembered before the page sees it; a
\* terminal frame closes the connection for good.
Deliver(r) ==
  /\ wire[r] # <<>> /\ page[r].state = "watching"
  /\ LET f == Head(wire[r]) IN
       IF f.kind = "delta"
       THEN /\ page' = [page EXCEPT ![r].buffer = ApplyDelta(@, f), ![r].lastId = f.offset]
            /\ wire' = [wire EXCEPT ![r] = Tail(@)]
            /\ UNCHANGED conn
       ELSE /\ page' = [page EXCEPT ![r].state = f.kind, ![r].lastId = f.offset]
            /\ wire' = [wire EXCEPT ![r] = <<>>]
            /\ conn' = [conn EXCEPT ![r] = NoConn]
  /\ UNCHANGED faults

\* The network breaks: what was in flight is lost, and the server's loop ends with its
\* socket.
Drop(r) ==
  /\ faults > 0 /\ (conn[r].open \/ wire[r] # <<>>)
  /\ conn' = [conn EXCEPT ![r] = NoConn]
  /\ wire' = [wire EXCEPT ![r] = <<>>]
  /\ faults' = faults - 1
  /\ UNCHANGED page
===============================================================================
