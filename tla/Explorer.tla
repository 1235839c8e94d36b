------------------------------- MODULE Explorer -------------------------------
(***************************************************************************)
(* The search of the exhaustive tester (CExTester): a main thread takes    *)
(* states from the open list, submits one work per operation, and collects *)
(* the results; worker threads copy the state and run the operation.       *)
(*                                                                         *)
(*  - A state holds a reference on the one it was copied from, for a power *)
(*    loss is verified against the ancestors.  Every other holder counts   *)
(*    too, and put() returns a state, and the ancestors that nobody else   *)
(*    holds, to a free list.                                               *)
(*  - m_closed maps the encoding of a state to the depth it was found at.  *)
(*    A state found again no shallower is dropped.                         *)
(*                                                                         *)
(* What the operations do is abstracted to a graph over the encodings.     *)
(* The main thread alone touches the free list, the open list and          *)
(* m_closed; workers add references and fill in their own state.           *)
(***************************************************************************)
EXTENDS Integers, Sequences, FiniteSets

CONSTANTS
    Encodings,      \* encodings of the reference file system
    First,          \* the encoding of the initial state
    Succ,           \* [Encodings -> SUBSET Encodings]: operations that succeed
    Refused,        \* [Encodings -> SUBSET Encodings]: operations that return
                    \* ERR_NO_OPERATION; the encoding still takes them in
    Failing,        \* encodings with an operation that fails a check
    PowerLoss,      \* encodings with block writes that a power loss can take back
    TestDepth,      \* m_test_depth
    StopOnError,    \* m_stop_on_error
    Workers,        \* the worker threads
    ThreadModes,    \* whether m_thread_num > 1: a subset of BOOLEAN
    FirstDepths,    \* what m_depth of the initial state may hold: nothing sets it
    MaxStates,      \* bound on the states allocated
    Null

ASSUME ConstAssumption ==
    /\ First \in Encodings
    /\ Succ \in [Encodings -> SUBSET Encodings]
    /\ Refused \in [Encodings -> SUBSET Encodings]
    /\ Failing \cup PowerLoss \subseteq Encodings
    /\ StopOnError \in BOOLEAN
    /\ TestDepth \in Nat /\ MaxStates \in Nat \ {0}
    /\ FirstDepths \subseteq Int /\ ThreadModes \subseteq BOOLEAN
    /\ Null \notin Nat \cup Encodings

State == 1 .. MaxStates

Operation == [kind : {"apply", "no operation", "failed", "power"}, to : Encodings]

\* What an operation queued by the main thread is: its state, the state it
\* starts from, and how far it has come.
Work == [state : State, src : State, op : Operation,
         res : {"pending", "running", "ok", "no operation", "failed"}]

ASSUME NullAssumption == Null \notin Work

VARIABLES
    st,         \* the states: ref, enc, depth, parent
    pool,       \* m_free_list and m_allocated
    open,       \* m_open_list
    closed,     \* m_closed
    cur,        \* the state being expanded
    inserted,   \* how many of its successors are in the open list
    ops,        \* operations not yet submitted
    subq,       \* m_sub_q
    work,       \* the work of each thread
    cmpq,       \* m_cmp_q
    left,       \* works not yet collected
    deepest,    \* m_max_depth_state and m_max_depth
    error,      \* an operation failed
    stop,       \* m_stop_test
    threaded,   \* m_thread_num > 1
    pc          \* of the main thread

mainVars == <<open, closed, cur, inserted, ops, left, deepest, error, threaded, pc>>
vars == <<st, pool, open, closed, cur, inserted, ops, subq, work, cmpq, left,
          deepest, error, stop, threaded, pc>>

-------------------------------------------------------------------------------
(***************************************************************************)
(* CStateManager.  p is a pair of the states and the pool.                 *)
(***************************************************************************)
\* m_depth and the encoding are left as they were; DuplicateFrom sets them
\* before anything reads them.
FreshState == [ref |-> 1, enc |-> Null, depth |-> 0, parent |-> Null]

\* get: the head of the free list, or a new state.
GetState(p) ==
    IF p.pool.free # <<>> THEN Head(p.pool.free) ELSE p.pool.allocated + 1

AfterGet(p) ==
    LET s == GetState(p)
    IN  [st   |-> [p.st EXCEPT ![s] = FreshState],
         pool |-> IF p.pool.free # <<>>
                  THEN [p.pool EXCEPT !.free = Tail(@)]
                  ELSE [p.pool EXCEPT !.allocated = @ + 1]]

\* The ancestors of s: 0 is s itself.
Ancestor(states, s) ==
    LET up[i \in 0 .. MaxStates] ==
            IF i = 0 THEN s ELSE IF up[i - 1] = Null THEN Null ELSE states[up[i - 1]].parent
    IN  up

\* Mutant: the state alone is returned.
PutReleasesOne(p, s) == IF p.st[s].ref > 1 THEN 0 ELSE 1

\* How many states put(s) returns: s and its ancestors as long as the
\* reference taken away is the last one.
PutReleases(p, s) ==
    LET up == Ancestor(p.st, s)
    IN  CHOOSE k \in 0 .. MaxStates :
            /\ \A j \in 0 .. k - 1 : up[j] # Null /\ p.st[up[j]].ref = 1
            /\ up[k] # Null => p.st[up[k]].ref # 1

AfterPut(p, s) ==
    LET up == Ancestor(p.st, s)
        k == PutReleases(p, s)
        released == {up[j] : j \in 0 .. k - 1}
    IN  [st   |-> [x \in State |->
                     IF x \in released THEN [p.st[x] EXCEPT !.ref = 0, !.parent = Null]
                     ELSE IF x = up[k] THEN [p.st[x] EXCEPT !.ref = @ - 1]
                     ELSE p.st[x]],
         pool |-> [p.pool EXCEPT !.free = [j \in 1 .. k |-> up[k - j]] \o @]]

AfterPutOrNone(p, s) == IF s = Null THEN p ELSE AfterPut(p, s)

Pair == [st |-> st, pool |-> pool]

Becomes(p) == st' = p.st /\ pool' = p.pool

AddRef(p, s) == [p EXCEPT !.st[s].ref = @ + 1]

-------------------------------------------------------------------------------
(***************************************************************************)
(* The closed set                                                          *)
(***************************************************************************)

\* Mutant: the depth of the first time is kept.
ExistsAtAll(enc, depth) == enc \in DOMAIN closed

\* CheckAndInsert, what it returns.
Exists(enc, depth) == enc \in DOMAIN closed /\ closed[enc] <= depth

\* CheckAndInsert, what it records.
Recorded(enc, depth) ==
    IF Exists(enc, depth) THEN closed
    ELSE [e \in DOMAIN closed \cup {enc} |-> IF e = enc THEN depth ELSE closed[e]]

\* m_open_list.insert: behind the successors inserted before, ahead of the rest.
InsertOpen(s) ==
    SubSeq(open, 1, inserted) \o <<s>> \o SubSeq(open, inserted + 1, Len(open))

Init ==
    /\ \E d \in FirstDepths :
          st = [s \in State |-> IF s = 1
                                THEN [FreshState EXCEPT !.enc = First, !.depth = d]
                                ELSE [FreshState EXCEPT !.ref = 0]]
    /\ pool = [free |-> <<>>, allocated |-> 1]
    /\ open = <<1>>
    /\ closed = [e \in {} |-> 0]
    /\ cur = Null /\ inserted = 0
    /\ ops = {} /\ subq = <<>> /\ cmpq = <<>> /\ left = 0
    /\ work = [w \in Workers |-> Null]
    /\ deepest = [state |-> Null, depth |-> 0]
    /\ error = FALSE /\ stop = FALSE
    /\ threaded \in ThreadModes
    /\ pc = "pick"

-------------------------------------------------------------------------------
(***************************************************************************)
(* RunTest                                                                 *)
(***************************************************************************)

\* GenerateOps.
Ops(enc) ==
    {[kind |-> "apply", to |-> f] : f \in Succ[enc]}
      \cup {[kind |-> "no operation", to |-> f] : f \in Refused[enc]}
      \cup {[kind |-> "failed", to |-> e] : e \in Failing \cap {enc}}
      \cup {[kind |-> "power", to |-> e] : e \in PowerLoss \cap {enc}}

\* The state found deepest is held until a deeper one is found.
Deeper(s) == st[s].depth > deepest.depth

AfterDepthCheck(s) ==
    IF Deeper(s) THEN AddRef(AfterPutOrNone(Pair, deepest.state), s) ELSE Pair

DepthCheck(s) ==
    deepest' = IF Deeper(s) THEN [state |-> s, depth |-> st[s].depth] ELSE deepest

\* The user stops the test.
PickStopped ==
    /\ pc = "pick" /\ open # <<>> /\ stop
    /\ open' = Tail(open)
    /\ DepthCheck(Head(open))
    /\ Becomes(AfterPut(AfterDepthCheck(Head(open)), Head(open)))
    /\ pc' = "finish"
    /\ UNCHANGED <<closed, cur, inserted, ops, subq, work, cmpq, left, error, stop, threaded>>

\* A state at the maximal depth is verified and dropped.
PickLeaf ==
    /\ pc = "pick" /\ open # <<>> /\ ~stop
    /\ st[Head(open)].depth >= TestDepth
    /\ open' = Tail(open)
    /\ DepthCheck(Head(open))
    /\ Becomes(AfterPut(AfterDepthCheck(Head(open)), Head(open)))
    /\ UNCHANGED <<closed, cur, inserted, ops, subq, work, cmpq, left, error, stop, threaded, pc>>

PickExpand ==
    /\ pc = "pick" /\ open # <<>> /\ ~stop
    /\ st[Head(open)].depth < TestDepth
    /\ open' = Tail(open)
    /\ DepthCheck(Head(open))
    /\ Becomes(AfterDepthCheck(Head(open)))
    /\ cur' = Head(open) /\ inserted' = 0
    /\ ops' = Ops(st[Head(open)].enc)
    /\ error' = FALSE
    /\ pc' = "submit"
    /\ UNCHANGED <<closed, subq, work, cmpq, left, stop, threaded>>

\* DoFsOperator_Queue.
Submit(op) ==
    /\ pc = "submit" /\ threaded
    /\ op \in ops
    /\ LET p == AddRef(Pair, cur)
       IN  /\ GetState(p) \in State
           /\ subq' = Append(subq, [state |-> GetState(p), src |-> cur, op |-> op, res |-> "pending"])
           /\ Becomes(AfterGet(p))
    /\ ops' = ops \ {op}
    /\ left' = left + 1
    /\ UNCHANGED <<open, closed, cur, inserted, work, cmpq, deepest, error, stop, threaded, pc>>

Submitted ==
    /\ pc = "submit" /\ ops = {}
    /\ pc' = "collect"
    /\ UNCHANGED <<st, pool, open, closed, cur, inserted, ops, subq, work, cmpq, left,
                   deepest, error, stop, threaded>>

\* One turn of the collecting loop of EnumerateOp_Thread_V2.
Collect ==
    /\ pc = "collect" /\ cmpq # <<>>
    /\ LET c == Head(cmpq)
           s == c.state
           keep == c.res = "ok" /\ ~Exists(st[s].enc, st[s].depth)
           p == IF keep THEN Pair ELSE AfterPut(Pair, s)
       IN  /\ Becomes(AfterPut(p, c.src))
           /\ closed' = IF c.res = "ok" THEN Recorded(st[s].enc, st[s].depth) ELSE closed
           /\ open' = IF keep THEN InsertOpen(s) ELSE open
           /\ inserted' = IF keep THEN inserted + 1 ELSE inserted
           /\ error' = (error \/ c.res = "failed")
    /\ cmpq' = Tail(cmpq)
    /\ left' = left - 1
    /\ UNCHANGED <<cur, ops, subq, work, deepest, stop, threaded, pc>>

\* The expanded state is put; m_stop_on_error ends the test.
Expanded ==
    /\ pc = "collect" /\ left = 0
    /\ Becomes(AfterPut(Pair, cur))
    /\ cur' = Null
    /\ pc' = IF StopOnError /\ error THEN "finish" ELSE "pick"
    /\ UNCHANGED <<open, closed, inserted, ops, subq, work, cmpq, left, deepest, error, stop, threaded>>

\* The open list is empty.
AllExplored ==
    /\ pc = "pick" /\ open = <<>>
    /\ pc' = "finish"
    /\ UNCHANGED <<st, pool, open, closed, cur, inserted, ops, subq, work, cmpq, left,
                   deepest, error, stop, threaded>>

\* The end of RunTest.
PutDeepest ==
    /\ pc = "finish" /\ deepest.state # Null
    /\ Becomes(AfterPut(Pair, deepest.state))
    /\ deepest' = [deepest EXCEPT !.state = Null]
    /\ UNCHANGED <<open, closed, cur, inserted, ops, subq, work, cmpq, left, error, stop, threaded, pc>>

\* FinishTest puts what is left in the open list.
PutOpen ==
    /\ pc = "finish" /\ deepest.state = Null /\ open # <<>>
    /\ Becomes(AfterPut(Pair, Head(open)))
    /\ open' = Tail(open)
    /\ UNCHANGED <<closed, cur, inserted, ops, subq, work, cmpq, left, deepest, error, stop, threaded, pc>>

Finished ==
    /\ pc = "finish" /\ deepest.state = Null /\ open = <<>>
    /\ pc' = "finished"
    /\ UNCHANGED <<st, pool, open, closed, cur, inserted, ops, subq, work, cmpq, left,
                   deepest, error, stop, threaded>>

\* StopTest, from another thread.
StopTest ==
    /\ ~stop /\ pc # "finished"
    /\ stop' = TRUE
    /\ UNCHANGED <<st, pool, mainVars, subq, work, cmpq>>

-------------------------------------------------------------------------------
(***************************************************************************)
(* Operations                                                              *)
(***************************************************************************)

\* Mutant: the copy does not hold the state it was copied from.
DuplicatedUncounted(p, s, src) ==
    [p EXCEPT !.st[s].enc = p.st[src].enc, !.st[s].depth = p.st[src].depth + 1,
              !.st[s].parent = src]


\* DuplicateFrom.
Duplicated(p, s, src) ==
    AddRef([p EXCEPT !.st[s].enc = p.st[src].enc, !.st[s].depth = p.st[src].depth + 1,
                     !.st[s].parent = src], src)

\* What the reference file system of state s may be after the operation: a power
\* loss leaves one of its ancestors', the first the file system agrees with.
EncAfter(states, s, op) ==
    CASE op.kind \in {"apply", "no operation"} -> {op.to}
      [] op.kind = "power" -> {states[a].enc : a \in {Ancestor(states, s)[i] : i \in 0 .. MaxStates} \ {Null}}
      [] OTHER -> {states[s].enc}

ResultOf(op) == IF op.kind \in {"apply", "power"} THEN "ok" ELSE op.kind

\* Mutant: only a work that went well is answered.
CompletedIfOk(w) ==
    IF ResultOf(work[w].op) = "ok" THEN Append(cmpq, [work[w] EXCEPT !.res = "ok"]) ELSE cmpq

\* FsOperator_Queue answers every work, whatever FsOperator_Callback caught.
Completed(w) == Append(cmpq, [work[w] EXCEPT !.res = ResultOf(work[w].op)])

\* A worker takes a work; DuplicateFrom; FsOperatorCore, and the work is done.
Take(w) ==
    /\ work[w] = Null /\ subq # <<>>
    /\ work' = [work EXCEPT ![w] = Head(subq)]
    /\ subq' = Tail(subq)
    /\ UNCHANGED <<st, pool, mainVars, cmpq, stop>>

Duplicate(w) ==
    /\ work[w] # Null /\ work[w].res = "pending"
    /\ Becomes(Duplicated(Pair, work[w].state, work[w].src))
    /\ work' = [work EXCEPT ![w].res = "running"]
    /\ UNCHANGED <<mainVars, subq, cmpq, stop>>

Operate(w) ==
    /\ work[w] # Null /\ work[w].res = "running"
    /\ \E enc \in EncAfter(st, work[w].state, work[w].op) :
          st' = [st EXCEPT ![work[w].state].enc = enc]
    /\ cmpq' = Completed(w)
    /\ work' = [work EXCEPT ![w] = Null]
    /\ UNCHANGED <<pool, mainVars, subq, stop>>

\* EnumerateOpV2 and DoFsOperator, the search in one thread: the first operation
\* that does not return ERR_OK ends the expansion.  A failure throws before the
\* state is recorded.
OperateInline(op) ==
    /\ pc = "submit" /\ ~threaded
    /\ op \in ops
    /\ GetState(Pair) \in State
    /\ LET s == GetState(Pair)
           p == Duplicated(AfterGet(Pair), s, cur)
           d == p.st[s].depth
       IN  \E enc \in EncAfter(p.st, s, op) :
             LET q == [p EXCEPT !.st[s].enc = enc]
                 thrown == ResultOf(op) = "failed"
                 known == ~thrown /\ Exists(enc, d)
                 keep == ResultOf(op) = "ok" /\ ~known
             IN  /\ Becomes(IF keep THEN q ELSE AfterPut(q, s))
                 /\ closed' = IF thrown THEN closed ELSE Recorded(enc, d)
                 /\ open' = IF keep THEN InsertOpen(s) ELSE open
                 /\ inserted' = IF keep THEN inserted + 1 ELSE inserted
                 /\ ops' = IF keep \/ known THEN ops \ {op} ELSE {}
                 /\ error' = ~(keep \/ known)
    /\ UNCHANGED <<cur, subq, work, cmpq, left, deepest, stop, threaded, pc>>

Main ==
    \/ PickStopped \/ PickLeaf \/ PickExpand
    \/ \E op \in ops : Submit(op)
    \/ \E op \in ops : OperateInline(op)
    \/ Submitted \/ Collect \/ Expanded
    \/ AllExplored \/ PutDeepest \/ PutOpen \/ Finished

Worker(w) == Take(w) \/ Duplicate(w) \/ Operate(w)

Next == Main \/ (\E w \in Workers : Worker(w)) \/ StopTest

Spec == Init /\ [][Next]_vars

\* The operating system runs every thread that can run.
FairSpec == Spec /\ WF_vars(Main) /\ \A w \in Workers : WF_vars(Worker(w))

-------------------------------------------------------------------------------
(***************************************************************************)
(* Properties                                                              *)
(***************************************************************************)
Free == {pool.free[i] : i \in 1 .. Len(pool.free)}

Works == {subq[i] : i \in 1 .. Len(subq)} \cup {cmpq[i] : i \in 1 .. Len(cmpq)}
           \cup ({work[w] : w \in Workers} \ {Null})

\* Types; and the main thread, which waits for m_sub_q to be answered work by
\* work, counts in left exactly the works that are queued, running or answered.
TypeOK ==
    /\ st \in [State -> [ref : Nat, enc : Encodings \cup {Null}, depth : Int,
                         parent : State \cup {Null}]]
    /\ pool.free \in Seq(State) /\ pool.allocated \in 1 .. MaxStates
    /\ open \in Seq(State)
    /\ DOMAIN closed \subseteq Encodings
    /\ cur \in State \cup {Null} /\ deepest.state \in State \cup {Null}
    /\ inserted \in 0 .. MaxStates
    /\ Works \subseteq Work
    /\ left = Cardinality(Works)
    /\ pc \in {"pick", "submit", "collect", "finish", "finished"}

\* Every reference count is the number of holders: the open list, the main
\* thread, works, copies, and m_max_depth_state; and what nobody holds is free.
RefCountsExact ==
    \A s \in 1 .. pool.allocated :
        /\ st[s].ref = Cardinality({i \in 1 .. Len(open) : open[i] = s})
                       + Cardinality({c \in Works : c.state = s})
                       + Cardinality({c \in Works : c.src = s})
                       + Cardinality({x \in State : st[x].parent = s})
                       + (IF cur = s THEN 1 ELSE 0)
                       + (IF deepest.state = s THEN 1 ELSE 0)
        /\ st[s].ref = 0 <=> s \in Free

\* As long as a state is in use, the reference file system and the depth of its
\* ancestors stay what they were when it was copied: a worker that verifies a
\* power loss reads them while the main thread returns other states.
AncestorsStay ==
    [][\A s \in State :
          LET p == st[s].parent
          IN  p # Null /\ st'[s].parent = p =>
                 st'[p].ref > 0 /\ st'[p].enc = st[p].enc /\ st'[p].depth = st[p].depth]_vars

\* When the test is over every state is back in the pool.
NoStateLeaks == pc = "finished" => Len(pool.free) = pool.allocated

\* The encodings at the end of a path of n operations.
Reach[n \in Nat] == IF n = 0 THEN {First} ELSE UNION {Succ[e] : e \in Reach[n - 1]}

Distance(e) ==
    CHOOSE n \in 1 .. TestDepth : e \in Reach[n] /\ \A k \in 1 .. n - 1 : e \notin Reach[k]

\* Whatever order the workers finish in, a search that is not stopped finds
\* every encoding that TestDepth operations lead to, at the least depth.
\* (Going back to the first state by a power loss is no operation.)
Exhaustive ==
    pc = "finish" /\ ~stop /\ ~(StopOnError /\ error) =>
        \A e \in (UNION {Reach[n] : n \in 1 .. TestDepth}) \ {First} :
            e \in DOMAIN closed /\ closed[e] = Distance(e)

\* So is the search by worker threads.
ExhaustiveThreaded == threaded => Exhaustive


\* The test ends.
Terminates == <>(pc = "finished")
===============================================================================
