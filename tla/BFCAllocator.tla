---------------------------- MODULE BFCAllocator ----------------------------
(***************************************************************************)
(* BFCAllocator (core/common_runtime/bfc_allocator.cc) with AllocatorRetry *)
(* (allocator_retry.cc), as threads that allocate and return memory use it *)
(* on top of a SubAllocator whose memory may run out.                      *)
(*                                                                         *)
(* The memory of a region is cut into chunks; the chunks of a region form  *)
(* a doubly linked list in the order of their addresses, free ones are in  *)
(* the bin for their size, and the Chunk structures that are not needed    *)
(* are in a list of their own.  Sizes and addresses are in bytes, with the *)
(* constants of the code.                                                  *)
(*                                                                         *)
(* AllocateRawInternal and DeallocateRawInternal hold lock_ throughout:    *)
(* each is one action, which takes the state of the allocator, a record,   *)
(* through the operators that stand for the functions they call.  A CHECK  *)
(* that fails is recorded in its field "ok".                               *)
(*                                                                         *)
(* A definition Op_Variant is a faulty form of Op that shows that the      *)
(* properties notice the slip; it is no part of the specification.         *)
(***************************************************************************)
EXTENDS Integers, FiniteSets, FiniteSetsExt

CONSTANTS
    Thread,         \* the clients
    Sizes,          \* the numbers of bytes they ask for
    NoRetry,        \* those that ask with no_retry_on_failure
    memory_limit,   \* memory_limit_
    InitialRegion,  \* the first region if allow_growth is set (1 MiB in the code)
    Physical,       \* how much the SubAllocator may be able to provide
    MaxAllocs       \* bound: the number of AllocateRaw calls

kMinAllocationSize == 256
kNumBins == 21
kInvalidBinNum == -1
kInvalidChunkHandle == -1
nullptr == 0

ASSUME AllocatorAssumption ==
    /\ Sizes \subseteq Nat
    /\ NoRetry \subseteq Thread
    /\ memory_limit \in Nat \ {0} /\ InitialRegion \in Nat \ {0}
    /\ Physical \subseteq Nat
    /\ MaxAllocs \in Nat

VARIABLES
    mem,        \* the state of the allocator
    physical,   \* input: what the SubAllocator can provide
    pc,         \* where each thread is
    num_bytes,  \* what it asks for
    ptr,        \* the pointer it holds
    deadline,   \* whether its deadline is set, ahead or passed
    missed,     \* history: memory was returned after it failed, before it waited
    calls       \* history: the number of AllocateRaw calls

vars == <<mem, physical, pc, num_bytes, ptr, deadline, missed, calls>>

Lesser(a, b) == IF a < b THEN a ELSE b

(***************************************************************************)
(* Sizes and bins.                                                         *)
(***************************************************************************)
RoundedBytes(n) ==
    kMinAllocationSize * ((n + kMinAllocationSize - 1) \div kMinAllocationSize)

Log2Floor[v \in Nat] == IF v < 2 THEN 0 ELSE 1 + Log2Floor[v \div 2]
BinNumForSize(n) ==
    Lesser(kNumBins - 1, Log2Floor[(IF n < 256 THEN 256 ELSE n) \div kMinAllocationSize])

(***************************************************************************)
(* Chunks, by handle.  A record m is the state of the allocator.           *)
(***************************************************************************)
NewChunk == [size |-> 0, requested_size |-> 0, allocation_id |-> -1, ptr |-> nullptr,
             prev |-> kInvalidChunkHandle, next |-> kInvalidChunkHandle,
             bin_num |-> kInvalidBinNum]

in_use(c) == c.allocation_id # -1
CHECK(m, cond) == [m EXCEPT !.ok = @ /\ cond]

\* AllocateChunk: the handle it returns, and what it leaves behind.
ChunkHandle(m) ==
    IF m.free_chunks_list # kInvalidChunkHandle THEN m.free_chunks_list
    ELSE Cardinality(DOMAIN m.chunks)
AllocateChunk(m) ==
    IF m.free_chunks_list # kInvalidChunkHandle
      THEN [m EXCEPT !.free_chunks_list = m.chunks[@].next]
      ELSE [m EXCEPT !.chunks = [h \in DOMAIN @ \cup {ChunkHandle(m)} |->
                                    IF h \in DOMAIN @ THEN @[h] ELSE NewChunk]]

SetHandle(m, p, h) ==
    [m EXCEPT !.handles = [q \in DOMAIN @ \cup {p} |-> IF q = p THEN h ELSE @[q]]]

\* DeleteChunk, which erases the handle, and DeallocateChunk.
DeleteChunk(m, h) ==
    [m EXCEPT !.handles = [q \in DOMAIN @ \ {m.chunks[h].ptr} |-> @[q]],
              !.chunks[h].next = m.free_chunks_list,
              !.free_chunks_list = h]

InsertFreeChunkIntoBin(m, h) ==
    LET c == m.chunks[h]
        b == BinNumForSize(c.size)
    IN  [CHECK(m, ~in_use(c) /\ c.bin_num = kInvalidBinNum) EXCEPT
            !.chunks[h].bin_num = b, !.bins[b] = @ \cup {h}]

RemoveFreeChunkFromBin(m, h) ==
    [CHECK(m, ~in_use(m.chunks[h]) /\ h \in m.bins[m.chunks[h].bin_num]) EXCEPT
        !.bins[m.chunks[h].bin_num] = @ \ {h}, !.chunks[h].bin_num = kInvalidBinNum]

\* The pointer back to h of a chunk that may not exist.
SetPrev(m, next, h) ==
    IF next # kInvalidChunkHandle THEN [m EXCEPT !.chunks[next].prev = h] ELSE m

\* SplitChunk: chunk h keeps n bytes, the new chunk k gets the rest.
Split_KeepSize(m, h, k, n) ==
    LET c == m.chunks[h] IN
    InsertFreeChunkIntoBin(
        SetPrev(SetHandle([CHECK(m, ~in_use(c) /\ c.bin_num = kInvalidBinNum) EXCEPT
                             !.chunks[k] = [@ EXCEPT !.ptr = c.ptr + n, !.size = c.size - n,
                                              !.allocation_id = -1, !.prev = h, !.next = c.next],
                             !.chunks[h].next = k],
                          c.ptr + n, k),
                c.next, k), k)
Split(m, h, k, n) ==
    LET c == m.chunks[h] IN
    InsertFreeChunkIntoBin(
        SetPrev(SetHandle([CHECK(m, ~in_use(c) /\ c.bin_num = kInvalidBinNum) EXCEPT
                             !.chunks[k] = [@ EXCEPT !.ptr = c.ptr + n, !.size = c.size - n,
                                              !.allocation_id = -1, !.prev = h, !.next = c.next],
                             !.chunks[h].size = n, !.chunks[h].next = k],
                          c.ptr + n, k),
                c.next, k), k)
SplitChunk(m, h, n) == Split(AllocateChunk(m), h, ChunkHandle(m), n)

\* Merge chunk h2 into its predecessor h1.
Merge(m, h1, h2) ==
    LET c2 == m.chunks[h2] IN
    DeleteChunk(
        SetPrev([CHECK(m, ~in_use(m.chunks[h1]) /\ ~in_use(c2) /\ c2.prev = h1) EXCEPT
                   !.chunks[h1].next = c2.next, !.chunks[h1].size = @ + c2.size],
                c2.next, h1), h2)

(***************************************************************************)
(* AllocateRawInternal.  The field "ret" carries what it returns.          *)
(***************************************************************************)
Fitting(m, b, n) == {h \in m.bins[b] : m.chunks[h].size >= n}
Before(c, d) == c.size < d.size \/ (c.size = d.size /\ c.ptr < d.ptr)
Smallest(m, S) == CHOOSE h \in S : \A k \in S \ {h} : Before(m.chunks[h], m.chunks[k])

\* The first chunk that fits, in the order of the bins and within a bin; the
\* search starts in the bin for the size.
FirstFit(m, n) ==
    Smallest(m, Fitting(m, Min({b \in BinNumForSize(n)..kNumBins - 1 : Fitting(m, b, n) # {}}), n))
Found_NextBin(m, n) == \E b \in BinNumForSize(n) + 1..kNumBins - 1 : Fitting(m, b, n) # {}
Found(m, n) == \E b \in BinNumForSize(n)..kNumBins - 1 : Fitting(m, b, n) # {}

\* A chunk is cut in two if the rest is as large as what is asked for.
Cut(m, h, n) == IF m.chunks[h].size >= 2 * n THEN SplitChunk(m, h, n) ELSE m

Use(m, h, requested) ==
    [m EXCEPT !.chunks[h] = [@ EXCEPT !.requested_size = requested,
                                      !.allocation_id = m.next_allocation_id],
              !.next_allocation_id = @ + 1,
              !.bytes_in_use = @ + m.chunks[h].size,
              !.ret = m.chunks[h].ptr]

TakeChunk(m, h, requested) ==
    Use(Cut(RemoveFreeChunkFromBin(m, h), h, RoundedBytes(requested)), h, requested)

FindChunkPtr(m, requested) ==
    IF Found(m, RoundedBytes(requested))
      THEN TakeChunk(m, FirstFit(m, RoundedBytes(requested)), requested) ELSE m

\* The bytes the SubAllocator provides: it is asked for less and less if it
\* has not enough, but not for less than n, and only once in a lifetime.  The
\* result is 0 if it fails, and -1 if the loop goes on for ever.
Less(b) == RoundedBytes((b * 9) \div 10)
SubAllocate(m, bytes, n) ==
    LET room == physical - m.total_region_allocated_bytes
        Backpedal[b \in Nat] == IF Less(b) < n THEN 0
                                ELSE IF Less(b) <= room THEN Less(b)
                                ELSE IF Less(b) = b THEN -1
                                ELSE Backpedal[Less(b)]
    IN  IF bytes <= room THEN bytes
        ELSE IF m.started_backpedal THEN 0 ELSE Backpedal[bytes]

Available(m) ==
    ((memory_limit - m.total_region_allocated_bytes) \div kMinAllocationSize)
       * kMinAllocationSize

\* curr_region_allocation_bytes_, doubled until it suffices.
Enough(m, n) ==
    LET Doubled[b \in Nat] == IF n > b THEN Doubled[2 * b] ELSE b
    IN  Doubled[m.curr_region_allocation_bytes]

\* A region of b bytes at address p, with one free chunk, of handle h.
AddRegion(m, p, b, h) ==
    InsertFreeChunkIntoBin(
        SetHandle([m EXCEPT !.regions = @ \cup {[ptr |-> p, size |-> b]},
                            !.total_region_allocated_bytes = @ + b,
                            !.chunks[h] = [@ EXCEPT !.ptr = p, !.size = b, !.allocation_id = -1,
                                             !.prev = kInvalidChunkHandle,
                                             !.next = kInvalidChunkHandle]],
                  p, h), h)

\* The SubAllocator gives out what lies above or below the other regions.
Base == RoundedBytes(memory_limit) + kMinAllocationSize
Ends(m) == {r.ptr + r.size : r \in m.regions} \cup {Base}
Starts(m) == {r.ptr : r \in m.regions} \cup {Base}
NewAddress(m, b, above) == IF above THEN Max(Ends(m)) ELSE Min(Starts(m)) - b

Extended(m, curr, b, above) ==
    AddRegion([AllocateChunk(m) EXCEPT
                 !.curr_region_allocation_bytes =
                     IF curr = m.curr_region_allocation_bytes THEN 2 * curr ELSE curr],
              NewAddress(m, b, above), b, ChunkHandle(m))

\* After the SubAllocator was asked for "bytes" and gave b.
AfterSubAllocate(m, curr, bytes, b, above) ==
    LET tried == [m EXCEPT !.started_backpedal = @ \/ b # bytes] IN
    IF b > 0 THEN Extended(tried, curr, b, above)
    ELSE [tried EXCEPT !.curr_region_allocation_bytes = curr, !.ret = b]

ExtendBy(m, curr, bytes, n, above) ==
    AfterSubAllocate(m, curr, bytes, SubAllocate(m, bytes, n), above)

Extend(m, n, above) ==
    IF n > Available(m) THEN m
    ELSE ExtendBy(m, Enough(m, n), Lesser(Enough(m, n), Available(m)), n, above)

\* The search is repeated if a region has been added.
SearchAgain(m, found, requested, above) ==
    IF found.ret # nullptr THEN found
    ELSE FindChunkPtr(Extend(found, RoundedBytes(requested), above), requested)

AllocateRawInternal(m, requested, above) ==
    IF requested = 0 THEN m
    ELSE SearchAgain(m, FindChunkPtr(m, requested), requested, above)

(***************************************************************************)
(* DeallocateRawInternal.                                                  *)
(***************************************************************************)
CoalesceNext_Not(m, h) == m
CoalesceNext(m, h) ==
    LET n == m.chunks[h].next IN
    IF n # kInvalidChunkHandle /\ ~in_use(m.chunks[n])
      THEN Merge(RemoveFreeChunkFromBin(m, n), h, n) ELSE m

CoalescePrev(m, h) ==
    LET p == m.chunks[h].prev IN
    IF p # kInvalidChunkHandle /\ ~in_use(m.chunks[p])
      THEN InsertFreeChunkIntoBin(Merge(RemoveFreeChunkFromBin(m, p), p, h), p)
      ELSE InsertFreeChunkIntoBin(m, h)

FreeAndMaybeCoalesce(m, h) ==
    CoalescePrev(
        CoalesceNext([CHECK(m, in_use(m.chunks[h]) /\ m.chunks[h].bin_num = kInvalidBinNum)
                        EXCEPT !.chunks[h].allocation_id = -1,
                               !.bytes_in_use = @ - m.chunks[h].size], h), h)

DeallocateRawInternal(m, p) == FreeAndMaybeCoalesce(m, m.handles[p])

(***************************************************************************)
(* The threads: AllocateRaw, AllocatorRetry and DeallocateRaw.             *)
(***************************************************************************)
Init ==
    /\ physical \in Physical
    /\ \E allow_growth \in BOOLEAN :
         mem = [chunks |-> [h \in {} |-> NewChunk], handles |-> [p \in {} |-> 0],
                free_chunks_list |-> kInvalidChunkHandle,
                bins |-> [b \in 0..kNumBins - 1 |-> {}], regions |-> {},
                curr_region_allocation_bytes |->
                    RoundedBytes(IF allow_growth THEN Lesser(memory_limit, InitialRegion)
                                                 ELSE memory_limit),
                total_region_allocated_bytes |-> 0, started_backpedal |-> FALSE,
                next_allocation_id |-> 1, bytes_in_use |-> 0, ok |-> TRUE, ret |-> nullptr]
    /\ pc = [t \in Thread |-> "idle"]
    /\ num_bytes = [t \in Thread |-> 0]
    /\ ptr = [t \in Thread |-> nullptr]
    /\ deadline = [t \in Thread |-> "unset"] /\ missed = [t \in Thread |-> FALSE]
    /\ calls = 0

\* lock_ is free: no thread is in the endless loop of Extend.
lock_free == \A t \in Thread : pc[t] # "spinning"

\* One attempt of thread t left m behind: it has a pointer, has none and goes
\* on at "otherwise", or never returns.
Attempted(t, m, otherwise) ==
    /\ mem' = [m EXCEPT !.ret = nullptr]
    /\ ptr' = [ptr EXCEPT ![t] = IF m.ret > 0 THEN m.ret ELSE nullptr]
    /\ pc' = [pc EXCEPT ![t] = IF m.ret > 0 THEN "holding"
                               ELSE IF m.ret < 0 THEN "spinning" ELSE otherwise]

Attempt(t, n, otherwise) ==
    \E m \in {AllocateRawInternal(mem, n, above) : above \in BOOLEAN} :
        Attempted(t, m, otherwise)

\* AllocateRaw tries once; AllocatorRetry takes over unless no bytes are asked
\* for or the caller wants no retry.
AllocateRaw(t, n) ==
    /\ pc[t] = "idle" /\ calls < MaxAllocs
    /\ lock_free
    /\ Attempt(t, n, IF n = 0 \/ t \in NoRetry THEN "idle" ELSE "retry")
    /\ num_bytes' = [num_bytes EXCEPT ![t] = n]
    /\ deadline' = [deadline EXCEPT ![t] = "unset"]
    /\ missed' = [missed EXCEPT ![t] = FALSE]
    /\ calls' = calls + 1
    /\ UNCHANGED physical

\* An attempt of the retry loop.  After the first failure the deadline is set;
\* after a later one it may have passed.
RetryAttempt_SetEachTime(t) ==
    /\ pc[t] = "retry"
    /\ lock_free
    /\ deadline' = [deadline EXCEPT ![t] = "ahead"]
    /\ Attempt(t, num_bytes[t], "failed")
    /\ missed' = [missed EXCEPT ![t] = FALSE]
    /\ UNCHANGED <<physical, num_bytes, calls>>
RetryAttempt(t) ==
    /\ pc[t] = "retry"
    /\ lock_free
    /\ deadline' = [deadline EXCEPT ![t] = IF @ = "unset" THEN "ahead" ELSE @]
    /\ Attempt(t, num_bytes[t], IF deadline[t] = "passed" THEN "last" ELSE "failed")
    /\ missed' = [missed EXCEPT ![t] = FALSE]
    /\ UNCHANGED <<physical, num_bytes, calls>>

\* The wait, on memory_returned_, until the deadline.
WaitForMilliseconds(t) ==
    /\ pc[t] = "failed"
    /\ pc' = [pc EXCEPT ![t] = "waiting"]
    /\ UNCHANGED <<mem, physical, num_bytes, ptr, deadline, missed, calls>>

\* The wait ends without a notification: at the deadline, up to a millisecond
\* before it, because the time to wait is truncated, or spuriously.
Timeout(t) ==
    /\ pc[t] = "waiting"
    /\ pc' = [pc EXCEPT ![t] = "retry"]
    /\ UNCHANGED <<mem, physical, num_bytes, ptr, deadline, missed, calls>>

\* The clock reaches the deadline of a request, wherever that is in the loop.
DeadlineAhead(t) == deadline[t] = "ahead" /\ pc[t] \in {"retry", "failed", "waiting"}
DeadlinePasses(t) ==
    /\ DeadlineAhead(t)
    /\ deadline' = [deadline EXCEPT ![t] = "passed"]
    /\ UNCHANGED <<mem, physical, pc, num_bytes, ptr, missed, calls>>

\* The last attempt, once the deadline has passed.
LastAttempt(t) ==
    /\ pc[t] = "last"
    /\ lock_free
    /\ Attempt(t, num_bytes[t], "idle")
    /\ UNCHANGED <<physical, num_bytes, deadline, missed, calls>>

DeallocateRaw(t) ==
    /\ pc[t] = "holding"
    /\ lock_free
    /\ mem' = DeallocateRawInternal(mem, ptr[t])
    /\ ptr' = [ptr EXCEPT ![t] = nullptr]
    /\ pc' = [pc EXCEPT ![t] = "notify"]
    /\ UNCHANGED <<physical, num_bytes, deadline, missed, calls>>

\* NotifyDealloc, in a critical section of AllocatorRetry's own.
Woken_One ==
    {u \in Thread : pc[u] = "waiting" /\ u = CHOOSE v \in Thread : pc[v] = "waiting"}
Woken == {u \in Thread : pc[u] = "waiting"}
NotifyDealloc(t) ==
    /\ pc[t] = "notify"
    /\ pc' = [u \in Thread |-> IF u = t THEN "idle"
                               ELSE IF u \in Woken THEN "retry" ELSE pc[u]]
    /\ missed' = [u \in Thread |-> missed[u] \/ pc[u] = "failed"]
    /\ UNCHANGED <<mem, physical, num_bytes, ptr, deadline, calls>>

Step(t) ==
    \/ RetryAttempt(t) \/ WaitForMilliseconds(t) \/ Timeout(t) \/ LastAttempt(t)
    \/ NotifyDealloc(t)

Next ==
    \E t \in Thread :
        \/ \E n \in Sizes : AllocateRaw(t, n)
        \/ DeallocateRaw(t) \/ Step(t) \/ DeadlinePasses(t)

\* Where Step(t) is enabled, and weak fairness of Step(t) in terms of that: TLC
\* takes too long to find out whether an attempt is enabled.  The clock goes on too.
CanStep(t) ==
    \/ pc[t] \in {"failed", "waiting", "notify"}
    \/ pc[t] \in {"retry", "last"} /\ lock_free
Fairness(t) ==
    /\ []<>~CanStep(t) \/ []<><<Step(t)>>_vars
    /\ []<>~DeadlineAhead(t) \/ []<><<DeadlinePasses(t)>>_vars

\* A thread goes on, and a deadline passes; nobody has to return memory.
Spec == Init /\ [][Next]_vars /\ \A t \in Thread : Fairness(t)

(***************************************************************************)
(* Properties.                                                             *)
(***************************************************************************)
Live  == {mem.handles[p] : p \in DOMAIN mem.handles}
InUse == {h \in Live : in_use(mem.chunks[h])}
Bytes(S) == MapThenSumSet(LAMBDA h : mem.chunks[h].size, S)

\* Sizes are multiples of kMinAllocationSize, and no counter is negative.
TypeOK ==
    /\ \A h \in Live : mem.chunks[h].size \in Nat \ {0}
                       /\ mem.chunks[h].size % kMinAllocationSize = 0
    /\ {mem.bytes_in_use, mem.total_region_allocated_bytes,
        mem.curr_region_allocation_bytes} \subseteq Nat
    /\ mem.ret = nullptr
    /\ pc \in [Thread -> {"idle", "retry", "failed", "waiting", "last", "holding",
                          "notify", "spinning"}]
    /\ deadline \in [Thread -> {"unset", "ahead", "passed"}]

\* None of the CHECKs that guard a bin, a split, a merge or a free fails.
ChecksHold == mem.ok

\* "Their prev/next pointers form a doubly-linked list of addresses sorted by
\* base address that must be contiguous": splits and merges in any order leave
\* a chain from the start of each region to its end, and never one across two
\* regions that happen to be neighbours.
ChunksTileRegions ==
    \A h \in Live :
        LET c == mem.chunks[h] IN
        /\ mem.handles[c.ptr] = h
        /\ IF c.next = kInvalidChunkHandle
             THEN \E r \in mem.regions : r.ptr <= c.ptr /\ c.ptr + c.size = r.ptr + r.size
             ELSE /\ c.next \in Live
                  /\ mem.chunks[c.next].prev = h
                  /\ mem.chunks[c.next].ptr = c.ptr + c.size
        /\ IF c.prev = kInvalidChunkHandle
             THEN \E r \in mem.regions : c.ptr = r.ptr
             ELSE c.prev \in Live /\ mem.chunks[c.prev].next = h

\* Memory that is free is never left in pieces.
NoAdjacentFree ==
    \A h \in Live \ InUse :
        mem.chunks[h].next # kInvalidChunkHandle => mem.chunks[h].next \in InUse

\* A bin holds the free chunks of its size, and a chunk knows its bin.
BinsHoldFreeChunks ==
    \A h \in DOMAIN mem.chunks : \A b \in 0..kNumBins - 1 :
        /\ (h \in mem.bins[b]) <=> (h \in Live \ InUse /\ BinNumForSize(mem.chunks[h].size) = b)
        /\ (h \in mem.bins[b]) <=> (mem.chunks[h].bin_num = b)

\* Every Chunk structure is in use for memory, or in free_chunks_list_.
ChunksNotLost ==
    LET n == Cardinality(DOMAIN mem.chunks)
        Walk[i \in 0..n] == IF i = 0 THEN mem.free_chunks_list
                            ELSE IF Walk[i - 1] = kInvalidChunkHandle THEN Walk[i - 1]
                            ELSE mem.chunks[Walk[i - 1]].next
        Unused == {Walk[i] : i \in 0..n} \ {kInvalidChunkHandle}
    IN  /\ Walk[n] = kInvalidChunkHandle
        /\ Unused = DOMAIN mem.chunks \ Live

\* A thread's block has room for what it asked for, and less than half of the
\* chunk is wasted on rounding up to a chunk that was there.
BlocksFit ==
    \A t \in Thread :
        pc[t] = "holding" =>
            LET c == mem.chunks[mem.handles[ptr[t]]] IN
            /\ c.requested_size = num_bytes[t]
            /\ num_bytes[t] <= c.size
            /\ c.size < 2 * RoundedBytes(num_bytes[t])

\* A block that is in use has one thread that holds it.
BlocksHeld ==
    /\ {mem.chunks[h].ptr : h \in InUse} = {ptr[t] : t \in {u \in Thread : pc[u] = "holding"}}
    /\ \A t, u \in Thread : pc[t] = "holding" /\ pc[u] = "holding" /\ t # u => ptr[t] # ptr[u]

\* The regions stay within the limit and within what there is.
LimitsKept ==
    mem.total_region_allocated_bytes <= memory_limit /\ mem.total_region_allocated_bytes <= physical

\* The counters are the sums of the chunks in use and of all chunks.
BytesAccountedFor ==
    /\ mem.bytes_in_use = Bytes(InUse)
    /\ mem.total_region_allocated_bytes = Bytes(Live)

\* The list, the bins, the regions and the threads agree on each chunk.
ChunksAgree ==
    /\ ChecksHold /\ ChunksTileRegions /\ NoAdjacentFree /\ BinsHoldFreeChunks
    /\ BlocksFit /\ BlocksHeld /\ LimitsKept

\* All the structures that describe the memory agree with each other.
ChunksConsistent == TypeOK /\ ChunksAgree /\ ChunksNotLost /\ BytesAccountedFor

Fits(n) == \E h \in Live \ InUse : mem.chunks[h].size >= RoundedBytes(n)

\* A thread sleeps although a chunk would do for it only if the memory was
\* returned after its attempt had failed and before it began to wait.
SleepsOnlyIfMissed ==
    \A t \in Thread :
        pc[t] = "waiting" /\ Fits(num_bytes[t]) =>
            missed[t] \/ \E u \in Thread : pc[u] = "notify"

\* AllocateRaw gives up only when no free chunk would do.
GivesUpOnlyIfFull ==
    [][\A t \in Thread : pc[t] = "last" /\ pc'[t] = "idle" => ~Fits(num_bytes[t])]_vars

\* The loop that asks the SubAllocator for less is endless, with lock_ held,
\* where nine units no longer shrink: the request is no larger than that, and
\* the SubAllocator has not as much.
CaughtBelowNineUnits(t) ==
    /\ pc[t] = "spinning"
    /\ RoundedBytes(num_bytes[t]) <= 9 * kMinAllocationSize
    /\ physical - mem.total_region_allocated_bytes < 9 * kMinAllocationSize

\* A request is granted, or refused when its deadline has passed, unless it or
\* another one is caught in the endless loop, and that only below nine units.
EveryRequestAnswered ==
    \A t \in Thread :
        (pc[t] \in {"retry", "spinning"}) ~>
            (pc[t] \in {"holding", "idle"} \/ \E u \in Thread : CaughtBelowNineUnits(u))

\* The chunks in use are blocks as an allocator promises them.
Block(m, h) == [ptr |-> m.chunks[h].ptr, size |-> m.chunks[h].size,
                requested |-> m.chunks[h].requested_size, id |-> m.chunks[h].allocation_id]
InUseBlocks == {Block(mem, h) : h \in InUse}
GivenIds == 1..mem.next_allocation_id - 1
Promise == INSTANCE Blocks WITH blocks <- InUseBlocks, ids <- GivenIds
ImplementsBlocks == Promise!Spec
=============================================================================
