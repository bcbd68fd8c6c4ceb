------------------------------ MODULE LogBuffer ------------------------------
(***************************************************************************)
(* The kernel log's ring buffer and early outputs (src/kernel/debug/      *)
(* Log.cpp): WriteLog reserves space with an atomic fetch_add on           *)
(* buffer->head, copies the message and builds the queue item inside the   *)
(* reservation, pushes the item on the MPSC msgQueue and, when early       *)
(* outputs exist and eloLock is free, pops up to MaxEloItemsPrinted items  *)
(* and hands each message to every early output (WriteElos).               *)
(* AddEarlyLogOutput registers an output under eloLock.  Log writes to    *)
(* the early buffer until InitCoreLogBuffers gives its core a buffer of    *)
(* its own.  PanicLanding tries eloLock, ignores the result and writes the *)
(* panic lines to every registered output.                                 *)
(*                                                                         *)
(* Each writer is one Log call; writers on different cores (or a thread    *)
(* and an interrupt handler on one core) interleave between the steps      *)
(* below.  A buffer cell holds the byte it was last given: byte i of       *)
(* writer w's message, a byte of w's queue item, or Free.  Reading byte i  *)
(* >= MsgLen[w] of w's message (past the end of the source) yields a cell  *)
(* no message has, so the output checks below see it.                      *)
(***************************************************************************)
EXTENDS Integers, Sequences, FiniteSets, TLC

CONSTANTS
    Writers,            \* concurrent Log/WriteLog calls
    Cores,              \* the cores the writers run on
    WriterCore,         \* WriterCore[w]: the core writer w runs on
    Early,              \* &earlyBuffer
    MsgLen,             \* MsgLen[w]: messageLen of writer w
    BufLen,             \* buffer->length
    ItemSize,           \* sizeof(QueueItem), also its alignment
    HeadStarts,         \* values earlyBuffer.head may hold when the writers start
    MaxEarlyLogOuts,    \* slots in earlyOuts
    MaxEloItemsPrinted, \* items one flush pops at most
    Outputs,            \* early outputs AddEarlyLogOutput may register
    Panickers,          \* cores that may take the PanicLanding path
    Free,               \* a cell nothing was written to
    Null,               \* nullptr
    Nobody              \* eloLock not held

ASSUME WriterCore \in [Writers -> Cores]
ASSUME MsgLen \in [Writers -> Nat \ {0}] /\ HeadStarts \subseteq Nat
ASSUME ItemSize \in Nat \ {0} /\ BufLen % ItemSize = 0

VARIABLES
    head,       \* head[b]: b->head, for the early buffer and each core's
    buf,        \* buf[b][p]: what cell p of b->buffer holds
    logBuffers, \* the cores whose CoreLocal().logBuffers is set
    target,     \* target[w]: the LogBuffer writer w's Log call picked
    begin,      \* begin[w]: beginWrite of writer w
    queue,      \* msgQueue: the pushed items, oldest first
    slots,      \* earlyOuts[]
    eloCount,   \* eloCount
    lockHolder, \* the writer or output holding eloLock
    printed,    \* printed[w]: items popped by w's current flush
    delivered,  \* delivered[o]: the messages output o was handed, as [w, bytes]
    outOfBounds,\* a write landed outside buffer->buffer (or a size_t wrapped)
    pc

vars == <<head, buf, logBuffers, target, begin, queue, slots, eloCount, lockHolder, printed,
          delivered, outOfBounds, pc>>

Cells == 0..BufLen - 1
Slots == 1..MaxEarlyLogOuts
Buffers == Cores \cup {Early}
MsgByte(w, i) == [w |-> w, i |-> i]
ItemCell(w) == [item |-> w]

-----------------------------------------------------------------------------
(* WriteLog's layout of one message *)

\* Mutant: no room reserved for the queue item.
AllocLengthNoItem(w) == MsgLen[w]

\* allocLength = messageLen + 2 * sizeof(QueueItem)
AllocLength(w) == MsgLen[w] + 2 * ItemSize

AlignUpTo(x, a) == ((x + a - 1) \div a) * a

\* Where WriteLog puts the queue item and the message of a writer whose
\* reservation starts at b, as the item offset, the message offset and the
\* memcopy(message, src, buffer, dst, n) calls it makes.  Lengths are
\* computed as in the code; a negative one is a size_t that wrapped.
Layout(b, w) ==
    LET len == MsgLen[w]
        alloc == AllocLength(w)
        Q2 == 2 * ItemSize
    IN IF b + alloc > BufLen
       THEN LET startLength == (b + alloc) - BufLen
                endLength == alloc - startLength
            IN IF startLength >= Q2
               THEN [item |-> b, msgBegin |-> b + Q2,
                     copies |-> << [src |-> 0, dst |-> b + Q2, n |-> startLength - Q2],
                                   [src |-> startLength - Q2, dst |-> 0, n |-> endLength] >>]
               ELSE [item |-> endLength - Q2, msgBegin |-> b,
                     copies |-> << [src |-> 0, dst |-> b, n |-> startLength],
                                   [src |-> startLength, dst |-> 0, n |-> endLength - Q2] >>]
       ELSE [item |-> b, msgBegin |-> b + Q2,
             copies |-> << [src |-> 0, dst |-> b + Q2, n |-> len] >>]

\* The cells the item occupies: new (AlignUp(&buffer[itemAddr])) QueueItem.
ItemCells(l) == {AlignUpTo(l.item, ItemSize) + k : k \in 0..ItemSize - 1}

\* Every copy has a non-negative size and lands inside the buffer, and so
\* does the item.
LayoutInBounds(l) ==
    /\ \A c \in 1..Len(l.copies) :
          /\ l.copies[c].n >= 0
          /\ l.copies[c].n > 0 => l.copies[c].dst >= 0 /\ l.copies[c].dst + l.copies[c].n <= BufLen
    /\ l.item >= 0
    /\ ItemCells(l) \subseteq Cells

\* The buffer after the two memcopies and the item construction.
Written(l, w) ==
    [p \in Cells |->
        IF p \in ItemCells(l) THEN ItemCell(w)
        ELSE IF \E c \in 1..Len(l.copies) :
                    l.copies[c].dst <= p /\ p < l.copies[c].dst + l.copies[c].n
             THEN LET c == CHOOSE c \in 1..Len(l.copies) :
                               l.copies[c].dst <= p /\ p < l.copies[c].dst + l.copies[c].n
                  IN MsgByte(w, l.copies[c].src + (p - l.copies[c].dst))
             ELSE buf[target[w]][p]]

(* WriteElos: what the outputs receive for one item *)

\* The message read back from msg.begin, wrapping at the buffer end when
\* msg.begin + msg.length >= buffer->length.
Runover(b, len) == IF b + len >= BufLen THEN b + len - BufLen ELSE 0

ReadBack(bf, b, len) ==
    LET r == Runover(b, len)
        first == len - r
    IN [k \in 1..first |-> buf[bf][b + k - 1]] \o [k \in 1..r |-> buf[bf][k - 1]]

-----------------------------------------------------------------------------
Init ==
    /\ \E h \in HeadStarts : head = [b \in Buffers |-> IF b = Early THEN h ELSE 0]
    /\ buf = [b \in Buffers |-> [p \in Cells |-> Free]]
    /\ logBuffers = {}
    /\ target = [w \in Writers |-> Early]
    /\ begin = [w \in Writers |-> 0]
    /\ queue = << >>
    /\ slots = [i \in Slots |-> Null]
    /\ eloCount = 0
    /\ lockHolder = Nobody
    /\ printed = [w \in Writers |-> 0]
    /\ delivered = [o \in Outputs |-> << >>]
    /\ outOfBounds = FALSE
    /\ pc = [w \in Writers |-> "Reserve"] @@ [o \in Outputs |-> "Add"]
            @@ [x \in Panickers |-> "Panic"]

Goto(x, l) == pc' = [pc EXCEPT ![x] = l]

\* Log's choice of buffer: the core's own once InitCoreLogBuffers has run
\* on it, else the early buffer.  (The formatting that yields bufferLen is
\* abstracted to MsgLen.)
LogBufferOf(w) == IF WriterCore[w] \in logBuffers THEN WriterCore[w] ELSE Early

\* Log picks the buffer, then WriteLog's
\* beginWrite = fetch_add(&buffer->head, allocLength) % buffer->length.
Reserve(w) ==
    /\ pc[w] = "Reserve"
    /\ LET b == LogBufferOf(w) IN
        /\ target' = [target EXCEPT ![w] = b]
        /\ begin' = [begin EXCEPT ![w] = head[b] % BufLen]
        /\ head' = [head EXCEPT ![b] = @ + AllocLength(w)]
    /\ Goto(w, "Copy")
    /\ UNCHANGED <<buf, logBuffers, queue, slots, eloCount, lockHolder, printed,
                   delivered, outOfBounds>>

\* The two memcopies (or one) and the construction of the queue item.  A
\* write outside the buffer or of a wrapped size corrupts memory the model
\* does not hold; it is recorded and the cells inside the buffer are left.
Copy(w) ==
    /\ pc[w] = "Copy"
    /\ LET l == Layout(begin[w], w) IN
        IF LayoutInBounds(l)
        THEN /\ buf' = [buf EXCEPT ![target[w]] = Written(l, w)]
             /\ UNCHANGED outOfBounds
        ELSE /\ outOfBounds' = TRUE
             /\ UNCHANGED buf
    /\ Goto(w, "Push")
    /\ UNCHANGED <<head, logBuffers, target, begin, queue, slots, eloCount, lockHolder, printed,
                   delivered>>

\* msgQueue.Push(item), with item->data = {buffer, messageBegin, messageLen}.
Push(w) ==
    /\ pc[w] = "Push"
    /\ LET l == Layout(begin[w], w) IN
        queue' = Append(queue, [w |-> w, buff |-> target[w],
                                at |-> AlignUpTo(l.item, ItemSize),
                                begin |-> l.msgBegin, length |-> MsgLen[w]])
    /\ Goto(w, "TryFlush")
    /\ UNCHANGED <<head, buf, logBuffers, target, begin, slots, eloCount, lockHolder, printed,
                   delivered, outOfBounds>>

\* eloCount > 0 && eloLock.TryLock(): else WriteLog returns.
TryFlush(w) ==
    /\ pc[w] = "TryFlush"
    /\ IF eloCount > 0 /\ lockHolder = Nobody
       THEN /\ lockHolder' = w
            /\ printed' = [printed EXCEPT ![w] = 0]
            /\ Goto(w, "Pop")
       ELSE /\ Goto(w, "Done")
            /\ UNCHANGED <<lockHolder, printed>>
    /\ UNCHANGED <<head, buf, logBuffers, target, begin, queue, slots, eloCount, delivered,
                   outOfBounds>>

\* The queue item as WriteElos reads it from the buffer: its fields are
\* the pushed ones only while its cells still hold the item.
ItemIntact(it) ==
    \A k \in 0..ItemSize - 1 :
        it.at + k \in Cells /\ buf[it.buff][it.at + k] = ItemCell(it.w)

\* The outputs in earlyOuts[].
Registered == {slots[i] : i \in Slots} \ {Null}

\* WriteElos(item->data): every registered output, in slot order, gets the
\* message.  (On runover the code also calls the empty slots, line 80; the
\* model does not follow a call through nullptr.)
WriteElos(it) ==
    LET msg == [w |-> it.w,
                bytes |-> IF ItemIntact(it) THEN ReadBack(it.buff, it.begin, it.length)
                          ELSE << Free >>]
    IN delivered' = [o \in Outputs |->
                       IF o \in Registered THEN Append(delivered[o], msg)
                       ELSE delivered[o]]

\* One turn of the flush loop: Pop; a null item breaks out of the loop.
Pop(w) ==
    /\ pc[w] = "Pop"
    /\ IF queue = << >>
       THEN /\ Goto(w, "Unlock")
            /\ UNCHANGED <<queue, printed, delivered>>
       ELSE /\ queue' = Tail(queue)
            /\ WriteElos(Head(queue))
            /\ printed' = [printed EXCEPT ![w] = @ + 1]
            /\ Goto(w, IF printed[w] + 1 < MaxEloItemsPrinted THEN "Pop" ELSE "Unlock")
    /\ UNCHANGED <<head, buf, logBuffers, target, begin, slots, eloCount, lockHolder, outOfBounds>>

\* eloLock.Unlock() after the loop.
Unlock(w) ==
    /\ pc[w] = "Unlock"
    /\ lockHolder' = Nobody
    /\ Goto(w, "Done")
    /\ UNCHANGED <<head, buf, logBuffers, target, begin, queue, slots, eloCount, printed,
                   delivered, outOfBounds>>

\* AddEarlyLogOutput(callback): under eloLock (spinning until it is free),
\* the first call clears the slots; the callback goes into the first empty
\* slot and eloCount is incremented, or is dropped when all are taken.
AddEarlyLogOutput(o) ==
    /\ pc[o] = "Add"
    /\ lockHolder = Nobody
    /\ LET cleared == IF eloCount = 0 THEN [i \in Slots |-> Null] ELSE slots
           empty == {i \in Slots : cleared[i] = Null}
       IN IF empty # {}
          THEN LET i == CHOOSE i \in empty : \A j \in empty : i <= j IN
               /\ slots' = [cleared EXCEPT ![i] = o]
               /\ eloCount' = eloCount + 1
          ELSE /\ slots' = cleared
               /\ UNCHANGED eloCount
    /\ Goto(o, "Done")
    /\ UNCHANGED <<head, buf, logBuffers, target, begin, queue, lockHolder, printed, delivered,
                   outOfBounds>>

\* InitCoreLogBuffers on core c: a fresh buffer with head 0 is published
\* in CoreLocal().logBuffers; later Log calls on c write to it.
InitCoreLogBuffers(c) ==
    /\ c \notin logBuffers
    /\ logBuffers' = logBuffers \cup {c}
    /\ head' = [head EXCEPT ![c] = 0]
    /\ buf' = [buf EXCEPT ![c] = [p \in Cells |-> Free]]
    /\ UNCHANGED <<target, begin, queue, slots, eloCount, lockHolder, printed,
                   delivered, outOfBounds, pc>>

\* The three messages PanicLanding writes.
PanicLines == <<"\r\n\r\n", "Kernel Panic :(\r\n",
                "System has halted indefinitely, manual reset required.\r\n">>

\* PanicWrite(message) three times: each call hands the message to every
\* non-null slot, in slot order.
PanicWrites(x) ==
    [k \in 1..Len(PanicLines) |-> [w |-> x, bytes |-> <<PanicLines[k]>>]]

\* PanicLanding on core x: BroadcastPanicIpi (the other cores halt when
\* the IPI lands, which the model leaves open), eloLock.TryLock() with its
\* result ignored, the three PanicWrites, and Halt.
PanicLanding(x) ==
    /\ pc[x] = "Panic"
    /\ lockHolder' = IF lockHolder = Nobody THEN x ELSE lockHolder
    /\ delivered' = [o \in Outputs |->
                       IF o \in Registered THEN delivered[o] \o PanicWrites(x)
                       ELSE delivered[o]]
    /\ Goto(x, "Halted")
    /\ UNCHANGED <<head, buf, logBuffers, target, begin, queue, slots, eloCount,
                   printed, outOfBounds>>

Step(w) == Reserve(w) \/ Copy(w) \/ Push(w) \/ TryFlush(w) \/ Pop(w) \/ Unlock(w)

\* Every writer and every output registration has returned.
Terminated ==
    /\ \/ \A x \in Writers \cup Outputs : pc[x] = "Done"
       \/ \E x \in Panickers : pc[x] = "Halted"
    /\ UNCHANGED vars

Next ==
    \/ \E w \in Writers : Step(w)
    \/ \E o \in Outputs : AddEarlyLogOutput(o)
    \/ \E c \in Cores : InitCoreLogBuffers(c)
    \/ \E x \in Panickers : PanicLanding(x)
    \/ Terminated

Spec == Init /\ [][Next]_vars
        /\ \A w \in Writers : WF_vars(Step(w))
        /\ \A o \in Outputs : WF_vars(AddEarlyLogOutput(o))

-----------------------------------------------------------------------------
(* Properties *)

\* The message's own bytes, in order.
Message(w) == [k \in 1..MsgLen[w] |-> MsgByte(w, k - 1)]

\* The refinement mapping: a Log call has submitted its message once its
\* item is pushed; the pending messages are msgQueue's items; the
\* registered outputs are the filled earlyOuts[] slots.
AbstractLog == INSTANCE MessageLog WITH
    Text <- [w \in Writers |-> Message(w)],
    EmergencyText <- [x \in Panickers |-> PanicWrites(x)],
    submitted <- {w \in Writers : pc[w] \in {"TryFlush", "Pop", "Unlock", "Done"}},
    pending <- [i \in 1..Len(queue) |-> queue[i].w],
    outputs <- Registered,
    log <- delivered

\* WriteLog, the flush loop, WriteElos and AddEarlyLogOutput implement the
\* message log: every early output is handed each message once, byte for
\* byte, in the order the items were pushed, and only messages pushed
\* after it was registered.  This covers WriteLog's placement of the item
\* and the text inside the reservation, concurrent writers' reservations
\* and copies, the read-back from item->data, and flushes by different
\* writers taking turns under eloLock.
MessageLogRefined == AbstractLog!Spec

\* WriteLog never writes outside buffer->buffer and never computes a
\* wrapped (negative) copy size.
WritesInBounds == ~outOfBounds

\* Once an early output exists, a message WriteLog has queued is
\* eventually handed to the outputs (by this or a later flush).
EveryMessageFlushed ==
    \A w \in Writers :
        [](((\E i \in 1..Len(queue) : queue[i].w = w) /\ eloCount > 0)
              => <>(\E o \in Outputs : \E i \in 1..Len(delivered[o]) :
                       delivered[o][i].w = w))

=============================================================================
