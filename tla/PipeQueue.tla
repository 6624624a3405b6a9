------------------------------ MODULE PipeQueue ------------------------------
(***************************************************************************)
(* One CPipeQueue<T> (service/include/pipequeue.h): the writer half, which *)
(* lives in the pushing thread's epoll loop, the kernel pipe, and the      *)
(* reader half, which lives in the other thread's loop.                    *)
(*                                                                         *)
(* Sizes are counted in elements.  Every size the code computes is a       *)
(* multiple of sizeof(T) as long as the pipe moves whole elements, which   *)
(* it does: reads and writes start aligned and PIPE_BUF is a multiple of   *)
(* sizeof(T).  An element is its serial number, the n-th accepted by Push; *)
(* the task pointers of a pipe are distinct while they are in it.          *)
(***************************************************************************)
EXTENDS Integers, Sequences

CONSTANTS
    K,            \* kCommonConstant: reader's array, writer's first volume
    W,            \* sizeof(T): the scale of T* arithmetic
    PipeBuf,      \* PIPE_BUF, the largest atomic write
    PipeCap,      \* the capacity of the kernel pipe
    MaxPush,      \* bound: elements ever accepted
    Loads,        \* bounds: elements accepted and not yet delivered
    MaxRefused    \* bound: calls of Push that fail

ASSUME PipeQueueAssumption ==
    /\ K \in Nat \ {0}
    /\ W \in Nat \ {0}
    /\ PipeBuf \in Nat /\ K <= PipeBuf
    /\ PipeCap \in Nat /\ PipeBuf <= PipeCap
    /\ MaxPush \in Nat /\ Loads \subseteq Nat /\ MaxRefused \in Nat

VARIABLES
    m_buf,               \* writer: m_buf[0 .. m_data_size_end)
    m_data_size_offset,  \* writer: elements of m_buf already written
    m_buf_volume,        \* writer: elements m_buf has room for
    output,              \* writer: EPOLLOUT is in m_events and in the epoll set
    pipe,                \* the kernel's bytes between the two file descriptors
    rbuf,                \* reader: m_buf[m_data_num_offset .. m_data_num_end)
    task_num,            \* reader: Pops done in the running InputNotify, 0 outside
    pushed,              \* Push calls that returned 0
    refused,             \* Push calls that returned -1
    delivered,           \* what TaskNotify was called with, in order
    torn,                \* some write took part of what it was given
    load                 \* how many elements may be under way, the same throughout

writer == <<m_buf, m_data_size_offset, m_buf_volume, output, pushed, refused, torn, load>>
reader == <<rbuf, task_num, delivered>>
pipeVars == <<writer, pipe, reader>>

(* An element the code reads from beyond m_data_size_end: not a pushed one. *)
Stray == 0

Pending == Len(m_buf) - m_data_size_offset

InFlight == rbuf \o pipe \o m_buf

(* No more elements are ever under way than the pipe holds. *)
Light == load <= PipeCap

Min2(a, b) == IF a <= b THEN a ELSE b

PipeInit ==
    /\ m_buf = <<>> /\ m_data_size_offset = 0 /\ m_buf_volume = K
    /\ output = FALSE
    /\ pipe = <<>>
    /\ rbuf = <<>> /\ task_num = 0
    /\ pushed = 0 /\ refused = 0 /\ delivered = <<>> /\ torn = FALSE
    /\ load \in Loads

(***************************************************************************)
(* write(2) on a non-blocking pipe, as pipe(7) has it: how many of n       *)
(* elements may be taken.  Up to PIPE_BUF it is all or EAGAIN; above, it   *)
(* is EAGAIN only when the pipe is full and may be anything that fits.     *)
(***************************************************************************)
Accepted(n) ==
    LET room == PipeCap - Len(pipe) IN
    CASE n <= PipeBuf /\ n <= room -> {n}
      [] n <= PipeBuf /\ n > room  -> {0}
      [] n > PipeBuf /\ room = 0   -> {0}
      [] OTHER                     -> 1 .. Min2(n, room)

(***************************************************************************)
(* The address of the data to write: m_buf is a T*, m_data_size_offset is  *)
(* in bytes, so m_buf + m_data_size_offset is W times too far.             *)
(***************************************************************************)
Written(buf, off, m) ==
    [k \in 1 .. m |-> IF W * off + k <= Len(buf) THEN buf[W * off + k] ELSE Stray]

(* Mutant: EPOLLOUT is disabled after every write, complete or not. *)
DrainGivesUp(buf, off, m) ==
    /\ m_buf' = IF off + m >= Len(buf) THEN <<>> ELSE buf
    /\ m_data_size_offset' = IF off + m >= Len(buf) THEN 0 ELSE off + m
    /\ output' = FALSE

(* CPipeQueueWriter::OutputNotify once the write has taken m elements. *)
Drain(buf, off, m) ==
    IF off + m >= Len(buf)
    THEN m_buf' = <<>> /\ m_data_size_offset' = 0 /\ output' = FALSE
    ELSE m_buf' = buf /\ m_data_size_offset' = off + m /\ output' = TRUE

(***************************************************************************)
(* OutputNotify, and its call at the end of Push: one write of everything  *)
(* pending, or nothing when the pipe refuses it.                           *)
(***************************************************************************)
WriteOut(buf, off) ==
    \E m \in Accepted(Len(buf) - off) :
        /\ pipe' = pipe \o Written(buf, off, m)
        /\ Drain(buf, off, m)
        /\ torn' = (torn \/ (0 < m /\ m < Len(buf) - off))

(***************************************************************************)
(* The writer's loop reports EPOLLOUT when the pipe has a free page.       *)
(***************************************************************************)
OutputNotify ==
    /\ output
    /\ PipeCap - Len(pipe) >= PipeBuf
    /\ WriteOut(m_buf, m_data_size_offset)
    /\ UNCHANGED <<m_buf_volume, pushed, refused, load, reader>>

(* Mutant: the volume is compared one element too late. *)
FullLate == Len(m_buf) > m_buf_volume

(***************************************************************************)
(* CPipeQueueWriter::Push.  A full buffer is compacted when more than one  *)
(* element of it has been written, else doubled; either way the offset is  *)
(* reset, although only compaction moves the data.  Every K elements the   *)
(* buffer is written at once instead of waiting for EPOLLOUT.              *)
(***************************************************************************)
Full == Len(m_buf) >= m_buf_volume

Compacts == Full /\ m_data_size_offset > 1

Grows == Full /\ m_data_size_offset <= 1

(* Mutant: a doubled buffer starts empty (malloc instead of realloc). *)
KeptNothing == IF Full THEN <<>> ELSE m_buf

Kept == IF Compacts THEN SubSeq(m_buf, m_data_size_offset + 1, Len(m_buf)) ELSE m_buf

(* Mutant: Push leaves all writing to the epoll loop. *)
FlushNever(buf, off) == FALSE

FlushNow(buf, off) == Len(buf) - off >= K /\ Len(buf) % K = 0

PushData(data) ==
    LET buf == Append(Kept, data)
        off == IF Full THEN 0 ELSE m_data_size_offset
    IN  /\ m_buf_volume' = IF Grows THEN 2 * m_buf_volume ELSE m_buf_volume
        /\ \/ /\ FlushNow(buf, off)
              /\ WriteOut(buf, off)
           \/ /\ ~FlushNow(buf, off)
              /\ m_buf' = buf /\ m_data_size_offset' = off /\ output' = TRUE
              /\ UNCHANGED <<pipe, torn>>

Push ==
    /\ pushed < MaxPush
    /\ pushed - Len(delivered) < load
    /\ PushData(pushed + 1)
    /\ pushed' = pushed + 1
    /\ UNCHANGED <<refused, load, reader>>

(* realloc returns NULL: -1, and the element is in nobody's hands. *)
PushRefused ==
    /\ Grows
    /\ refused < MaxRefused
    /\ refused' = refused + 1
    /\ UNCHANGED <<m_buf, m_data_size_offset, m_buf_volume, output, pushed, torn, load, pipe, reader>>

(***************************************************************************)
(* CPipeQueueReader::InputNotify: at most 2 * K Pops, each followed by     *)
(* TaskNotify; Pop reads a new batch only when the last one is used up.    *)
(* The loop is entered on EPOLLIN, which epoll reports while the pipe, and *)
(* not the reader's own buffer, has data.                                  *)
(***************************************************************************)
InputNotify ==
    /\ task_num = 0
    /\ pipe # <<>>
    /\ task_num' = 1
    /\ UNCHANGED <<writer, pipe, rbuf, delivered>>

NextTaskNum == IF task_num = 2 * K THEN 0 ELSE task_num + 1

(* Mutant: the reader's array is taken to be twice as long as it is. *)
ReadSizeTwice == Min2(2 * K, Len(pipe))

ReadSize == Min2(K, Len(pipe))

(* Mutant: the read position does not advance past a batch's last element. *)
PopAgain ==
    \/ /\ rbuf # <<>>
       /\ rbuf' = IF Len(rbuf) = 1 THEN rbuf ELSE Tail(rbuf)
       /\ UNCHANGED pipe
    \/ /\ rbuf = <<>> /\ pipe # <<>>
       /\ rbuf' = SubSeq(pipe, 2, ReadSize)
       /\ pipe' = SubSeq(pipe, ReadSize + 1, Len(pipe))

(* CPipeQueueReader::Pop, when it returns an element: Popped. *)
Pop ==
    \/ /\ rbuf # <<>>
       /\ rbuf' = Tail(rbuf)
       /\ UNCHANGED pipe
    \/ /\ rbuf = <<>> /\ pipe # <<>>
       /\ rbuf' = SubSeq(pipe, 2, ReadSize)
       /\ pipe' = SubSeq(pipe, ReadSize + 1, Len(pipe))

Popped == IF rbuf # <<>> THEN Head(rbuf) ELSE Head(pipe)

TaskNotify ==
    /\ task_num # 0
    /\ Pop
    /\ delivered' = Append(delivered, Popped)
    /\ task_num' = NextTaskNum
    /\ UNCHANGED writer

(* Pop finds nothing to read, or what it read happens to be NULL. *)
PopNull ==
    /\ task_num # 0
    /\ \/ rbuf = <<>> /\ pipe = <<>> /\ UNCHANGED <<rbuf, pipe>>
       \/ Pop /\ Popped = Stray
    /\ task_num' = 0
    /\ UNCHANGED <<writer, delivered>>

WriterNext == Push \/ PushRefused \/ OutputNotify

ReaderNext == InputNotify \/ TaskNotify \/ PopNull

PipeNext == WriterNext \/ ReaderNext

(* Both epoll loops keep running; nobody is obliged to push. *)
PipeFairness == WF_pipeVars(OutputNotify) /\ WF_pipeVars(ReaderNext)

PipeSafetySpec == PipeInit /\ [][PipeNext]_pipeVars

PipeSpec == PipeSafetySpec /\ PipeFairness
------------------------------------------------------------------------------
(* Types, and the capacity of each of the four places data is in. *)
PipeTypeOK ==
    /\ m_buf \in Seq(Nat) /\ m_data_size_offset \in 0 .. Len(m_buf)
    /\ m_buf_volume \in Nat /\ output \in BOOLEAN /\ torn \in BOOLEAN
    /\ pipe \in Seq(Nat) /\ Len(pipe) <= PipeCap
    /\ rbuf \in Seq(Nat) /\ Len(rbuf) <= K
    /\ task_num \in 0 .. 2 * K /\ load \in Nat
    /\ pushed \in Nat /\ refused \in Nat /\ delivered \in Seq(Nat)

(***************************************************************************)
(* As long as no write was partial, everything Push accepted is delivered  *)
(* or under way exactly once and in the order of acceptance, whatever the  *)
(* growth of the buffer, EAGAIN and the reader's batches do in between.    *)
(***************************************************************************)
InOrder == ~torn => delivered \o InFlight = [i \in 1 .. pushed |-> i]

(***************************************************************************)
(* While no more elements are under way than the pipe holds, the wrong     *)
(* address in OutputNotify and the wrong reset in Push are out of reach:   *)
(* the write Push does every K elements always succeeds, so the writer     *)
(* never keeps K of them, never grows, never refuses and is never partial. *)
(***************************************************************************)
NeverTorn ==
    Light =>
        /\ ~torn /\ refused = 0
        /\ Len(m_buf) < K /\ m_buf_volume = K

(* Push never stores beyond the memory realloc gave it, torn or not. *)
WithinVolume == Len(m_buf) <= m_buf_volume

(***************************************************************************)
(* EPOLLOUT is asked for exactly while something is left to write: neither *)
(* a stuck writer nor a loop that spins on a writable pipe.                *)
(***************************************************************************)
InterestMatchesPending == output <=> Pending > 0

(* The writer always gets rid of its data again, even after a torn write. *)
WriterDrains == []<>(Pending = 0)

(***************************************************************************)
(* The promise of Channel.  The slack is the K - 1 elements that the limit *)
(* of 2 * K per InputNotify can leave in the reader's array, where epoll   *)
(* does not see them.                                                      *)
(***************************************************************************)
Promise == INSTANCE Channel WITH Item <- 1 .. MaxPush, Slack <- K - 1, queue <- InFlight

(* One step of a light pipe is one step of the channel, or none. *)
ChannelSafety == (Light => Promise!Init) /\ [][Light => Promise!Next]_InFlight

(* More than K - 1 elements under way: one of them gets delivered. *)
ChannelProgress == Light => Promise!Progress
==============================================================================
