---------------------------- MODULE NetFetchQueue ---------------------------
(***************************************************************************)
(* A network fetch feeding audio into a buffer exchange: the producer is   *)
(* NetFetch::databufToQ() (src/src/mediaserver/cdplugins/netfetch.cpp),    *)
(* called by the transfer for each chunk received; the exchange is         *)
(* BufXChange<ABuffer*>, whose source is not in this repository and is     *)
(* modelled from the spec: a bounded FIFO of buffers from the producer to  *)
(* the consumer (the HTTP server streaming to MPD), a recycling queue back *)
(* from consumer to producer, and a terminate flag set when the consumer   *)
(* goes away, after which put() fails.                                     *)
(*                                                                         *)
(* Producer and consumer are two threads; each step below is one call of  *)
(* theirs or one blocking point.  A buffer is a model value with its       *)
(* allocated size; a chunk is numbered and has a byte count.               *)
(***************************************************************************)
EXTENDS Integers, Sequences

CONSTANTS
  Bufs,       \* the buffers that can ever be allocated (bound)
  Sizes,      \* byte counts of the chunks the transfer delivers
  MinAlloc,   \* the 4096 floor of `new ABuffer(MAX(4096, bcnt))`
  Capacity,   \* bound of the exchange's queue
  MaxChunks   \* bound: chunks the transfer delivers

None == "none"
NoChunk == [buf |-> None, bytes |-> 0, chunk |-> 0]

VARIABLES
  alloc,      \* alloc[b]: allocbytes of b, 0 while not yet allocated
  freed,      \* buffers deleted
  queue,      \* the exchange: << [buf, bytes, chunk] >>
  recycled,   \* the recycling queue: << buf >>
  ppc,        \* producer: "idle", "put" (blocked in put()), "aborted"
  pbuf,       \* producer: [buf, bytes, chunk] it is putting
  chunks,     \* chunks delivered by the transfer so far
  count,      \* fetch_data_count
  cbuf,       \* consumer: the chunk it is writing out, or NoChunk
  got,        \* history: the chunk numbers the consumer has written out
  closed      \* the exchange's terminate flag

vars == <<alloc, freed, queue, recycled, ppc, pbuf, chunks, count, cbuf, got,
          closed>>

Max2(a, b) == IF a < b THEN b ELSE a

Fresh == {b \in Bufs : alloc[b] = 0}

-----------------------------------------------------------------------------
(* The producer: databufToQ(contents, bcnt), lines 31-73.                  *)

\* Variant that reuses a recycled buffer whatever its size.
Reusable(b, bcnt) == TRUE

\* lines 41-46: a recycled buffer smaller than bcnt is deleted.
Fits(b, bcnt) == alloc[b] >= bcnt

\* lines 39-59: take_recycled(), else (or if it was too small) a new
\* buffer of MAX(4096, bcnt); then fill it (lines 55-57).
DataBufToQ ==
  /\ ppc = "idle"
  /\ chunks < MaxChunks
  /\ \E bcnt \in Sizes :
       LET rec  == recycled # <<>>
           r    == IF rec THEN Head(recycled) ELSE None
           keep == rec /\ Fits(r, bcnt)
       IN /\ recycled' = IF rec THEN Tail(recycled) ELSE recycled
          /\ freed' = IF rec /\ ~keep THEN freed \cup {r} ELSE freed
          /\ IF keep
               THEN /\ pbuf' = [buf |-> r, bytes |-> bcnt, chunk |-> chunks + 1]
                    /\ UNCHANGED alloc
               ELSE \E b \in Fresh :
                      /\ alloc' = [alloc EXCEPT ![b] = Max2(MinAlloc, bcnt)]
                      /\ pbuf' = [buf |-> b, bytes |-> bcnt, chunk |-> chunks + 1]
  /\ chunks' = chunks + 1
  /\ ppc' = "put"
  /\ UNCHANGED <<queue, count, cbuf, got, closed>>

\* lines 61-72: put() (BufXChange, from the spec: waits while the queue is
\* full, fails once terminated).  On failure the buffer is deleted and -1
\* returned, which aborts the transfer; on success the count goes up.
Put ==
  /\ ppc = "put"
  /\ \/ /\ closed
        /\ freed' = freed \cup {pbuf.buf}
        /\ ppc' = "aborted"
        /\ UNCHANGED <<queue, count>>
     \/ /\ ~closed
        /\ Len(queue) < Capacity
        /\ queue' = Append(queue, pbuf)
        /\ count' = count + pbuf.bytes
        /\ ppc' = "idle"
        /\ UNCHANGED freed
  /\ UNCHANGED <<alloc, recycled, pbuf, chunks, cbuf, got, closed>>

-----------------------------------------------------------------------------
(* The consumer, from the spec: it takes buffers in order, writes them     *)
(* out and hands them back for recycling; it may go away at any time.      *)

Take ==
  /\ ~closed
  /\ cbuf = NoChunk
  /\ queue # <<>>
  /\ cbuf' = Head(queue)
  /\ queue' = Tail(queue)
  /\ got' = Append(got, Head(queue).chunk)
  /\ UNCHANGED <<alloc, freed, recycled, ppc, pbuf, chunks, count, closed>>

Recycle ==
  /\ cbuf # NoChunk
  /\ recycled' = Append(recycled, cbuf.buf)
  /\ cbuf' = NoChunk
  /\ UNCHANGED <<alloc, freed, queue, ppc, pbuf, chunks, count, got, closed>>

\* The HTTP client disconnects: the exchange is terminated.
Terminate ==
  /\ ~closed
  /\ closed' = TRUE
  /\ UNCHANGED <<alloc, freed, queue, recycled, ppc, pbuf, chunks, count,
                 cbuf, got>>

Init ==
  /\ alloc = [b \in Bufs |-> 0]
  /\ freed = {}
  /\ queue = <<>>
  /\ recycled = <<>>
  /\ ppc = "idle"
  /\ pbuf = NoChunk
  /\ chunks = 0
  /\ count = 0
  /\ cbuf = NoChunk
  /\ got = <<>>
  /\ closed = FALSE

Producer == DataBufToQ \/ Put
Consumer == Take \/ Recycle

Next == Producer \/ Consumer \/ Terminate

Spec == Init /\ [][Next]_vars

-----------------------------------------------------------------------------
(* Every buffer handed to the consumer holds its chunk: the bytes copied   *)
(* by memcpy() (line 55) never exceed the buffer's allocation, even when a *)
(* buffer allocated for a small chunk comes back through recycling for a   *)
(* larger one.                                                             *)
ChunksFit ==
  /\ \A i \in 1..Len(queue) : queue[i].bytes <= alloc[queue[i].buf]
  /\ ppc = "put" => pbuf.bytes <= alloc[pbuf.buf]

=============================================================================
