---------------------------- MODULE TransportSlot ----------------------------
(***************************************************************************)
(* The per-slot state of the CI transport (TransportSlot in                *)
(* src/ca/transport.rs) and what each operation does to one slot.      *)
(* A frame is whatever the including module puts in the queue; a received  *)
(* body is a sequence of pieces, measured by its length.                   *)
(***************************************************************************)
EXTENDS Integers, Sequences

\* TransportSlot::new() and clear_slot().
EmptySlot == [busy |-> FALSE, queue |-> <<>>, rx |-> <<>>, dataPending |-> FALSE]

\* flush_slot() attempts a write only on an idle slot with a queued frame.
CanWrite(t) == ~t.busy /\ t.queue # <<>>

\* Seeded fault: the slot does not wait for the answer.
WrittenNotBusy(t) == [t EXCEPT !.queue = Tail(@)]

\* The link accepted the head frame.
Written(t) == [t EXCEPT !.queue = Tail(@), !.busy = TRUE]

\* A short write or a permanent error: the head frame is dropped.
WriteFailed(t) == [t EXCEPT !.queue = Tail(@)]

\* Seeded fault: the slot stays busy.
HeardStillBusy(t) == t

\* Any frame whose first byte names the slot ends the wait for a response.
Heard(t) == [t EXCEPT !.busy = FALSE]

\* A frame that parsed also carries the DATA_INDICATOR of its status byte.
HeardWell(t, di) == [Heard(t) EXCEPT !.dataPending = di]

\* recv_apdu() of a TT_DATA_MORE / TT_DATA_LAST body: beyond the capacity the
\* buffer is dropped and the frame reported; a last piece that leaves the
\* buffer non-empty hands the buffer over.
Overflows(t, body, capacity) == Len(t.rx) + Len(body) > capacity
Reassembled(t, body) == t.rx \o body
HandsOver(t, last, body) == last /\ Reassembled(t, body) # <<>>
=============================================================================
