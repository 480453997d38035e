---------------------------- MODULE WindowProofs ----------------------------
(***************************************************************************)
(* Windows, for every set of ranks, windows and scripts: what Python, the  *)
(* storage and the background thread know of them agrees; versions mean    *)
(* what they promise if mutexes are given back by their holders only; and  *)
(* they are, in scripts that leave the mutexes to the operations.          *)
(***************************************************************************)
EXTENDS Window, MutexProofs, SequenceTheorems

-----------------------------------------------------------------------------
(* The invariants *)

Moving == {"put", "accumulate", "get"}
Entry == [call : AllCalls, handle : Nat, with_p : BOOLEAN]

Types ==
    /\ job \in Jobs
    /\ pos \in [Rank -> Nat \ {0}]
    /\ pc \in [Rank -> {"run", "blocked", "wait", "sync", "average", "reset"}]
    /\ handle = [r \in Rank |-> handle[r]] /\ last_handle \in [Rank -> Nat]
    /\ results = [r \in Rank |-> results[r]]
    /\ win_map \in [Rank -> SUBSET Name]
    /\ windows \in [Rank -> SUBSET Name]
    /\ storage \in [Rank -> [tensors : SUBSET Name, devices : SUBSET Name]]
    /\ with_p \in [Rank -> BOOLEAN] /\ suspended \in [Rank -> BOOLEAN]
    /\ failed \in [Rank -> SUBSET Name]
    /\ queue \in [Rank -> Seq(Entry)]
    /\ bg \in [Rank -> [at : {"idle", "lock", "transfer", "version", "p", "callback"},
                        ranks : Seq(Rank)]]

\* Where a user thread is inside a call fits the call.
CallInv(r) ==
    /\ pc[r] # "run" => pos[r] \in DOMAIN job[r]
    /\ pc[r] = "blocked" => Call(r).op \in {"create", "free"}
    /\ pc[r] \in {"sync", "average", "reset"} =>
          Call(r).op \in {"update", "collect"} /\ UpdateArgs(r).ok

\* The user thread waits for an operation that was called as a blocking one for as long as
\* it is in the queue, and handles tell the operations apart.
Blocking(e) == e.call.op \in {"create", "free"} \/ e.call.blocking
WaitsFor(r, e) ==
    /\ pc[r] = IF e.call.op \in {"create", "free"} THEN "blocked" ELSE "wait"
    /\ handle[r] = e.handle
    /\ e.handle \in DOMAIN results[r] /\ results[r][e.handle] = "pending"
    /\ e.call = Call(r)
QueueInv(r) ==
    \A i \in DOMAIN queue[r] :
        LET e == queue[r][i]
        IN /\ e.call.op \in Moving \cup {"create", "free"}
           /\ e.call.op \in Moving => DOMAIN Weights(e.call, r) \subseteq Rank
           /\ e.handle <= last_handle[r]
           /\ \A k \in DOMAIN queue[r] : e.handle = queue[r][k].handle => i = k
           /\ Blocking(e) => WaitsFor(r, e)
           /\ pc[r] = "blocked" /\ e.handle = handle[r] => Blocking(e)

\* The background thread is inside an operation on a window that exists.
RunningInv(r) ==
    /\ bg[r].at # "idle" =>
          /\ queue[r] # <<>>
          /\ Operation(r).call.op \in Moving
          /\ Operation(r).call.name \in windows[r]
    /\ bg[r].at \in {"lock", "transfer", "version", "p"} => bg[r].ranks # <<>>

\* What a rank knows of windows, and what it knows in win_create or win_free, before and
\* after the collective part.
Except(r, names) ==
    /\ win_map[r] \subseteq storage[r].tensors \cap windows[r]
    /\ (storage[r].tensors \cup windows[r]) \ win_map[r] \subseteq failed[r] \cup names
Registered(r) == Except(r, {})
Registering(r) ==
    LET c == Call(r)
        all == "name" \notin c.has
        result == results[r][handle[r]]
    IN /\ handle[r] \in DOMAIN results[r]
       /\ c.op = "create" =>
             /\ Except(r, {c.name})
             /\ c.name \in storage[r].tensors
             /\ result = "ok" => c.name \in windows[r]
       /\ c.op = "free" =>
             /\ result \in {"pending", "ok"}
             /\ all => /\ win_map[r] = {} /\ storage[r].tensors = {}
                       /\ result = "ok" => windows[r] = {}
             /\ ~all => /\ Except(r, {c.name}) /\ c.name \notin storage[r].tensors
                        /\ c.name \in windows[r] <=> result = "pending"
RegistryInv(r) == IF pc[r] = "blocked" THEN Registering(r) ELSE Registered(r)

RankInv(r) == CallInv(r) /\ QueueInv(r) /\ RunningInv(r) /\ RegistryInv(r)

WinInv ==
    /\ Types
    /\ \A r, q \in Rank : windows[r] = windows[q]
    /\ \A r \in Rank : RankInv(r)

-----------------------------------------------------------------------------
(* Scripts *)

\* What the assumption says of the calls of a job.
LEMMA ScriptTypes ==
  ASSUME NEW j \in Jobs, NEW r \in Rank
  PROVE  /\ Len(j[r]) \in Nat /\ DOMAIN j[r] = 1 .. Len(j[r])
         /\ \A i \in DOMAIN j[r] :
               /\ j[r][i].flag \in BOOLEAN /\ j[r][i].mutex \in BOOLEAN
               /\ j[r][i].blocking \in BOOLEAN
               /\ j[r][i].op = "create" => j[r][i].name \in Name
<1>1. j[r] \in Seq({j[r][i] : i \in DOMAIN j[r]})
  BY JobsAssumption
<1>2. Len(j[r]) \in Nat /\ DOMAIN j[r] = 1 .. Len(j[r])
  BY <1>1
<1> QED
  BY <1>2, JobsAssumption

\* A rank that has not ended is at a call of its script.
LEMMA AtCall ==
  ASSUME Types, NEW r \in Rank
  PROVE  /\ ~Ended(r) <=> pos[r] \in DOMAIN job[r]
         /\ ~Ended(r) => Call(r) \in AllCalls
<1>1. Len(job[r]) \in Nat /\ DOMAIN job[r] = 1 .. Len(job[r]) /\ pos[r] \in Nat \ {0}
  BY ScriptTypes DEF Types
<1>2. ~Ended(r) <=> pos[r] \in DOMAIN job[r]
  BY <1>1 DEF Ended
<1> QED
  BY <1>2 DEF Call, AllCalls

LEMMA SameCall ==
  ASSUME NEW r \in Rank, job' = job, pos'[r] = pos[r]
  PROVE  Call(r)' = Call(r) /\ UpdateArgs(r)' = UpdateArgs(r)
<1>1. Call(r)' = Call(r)
  BY DEF Call
<1>2. UpdateArgs(r)' = UpdateArgs(r)
  BY <1>1 DEF UpdateArgs
<1> QED
  BY <1>1, <1>2

LEMMA SameCalls ==
  ASSUME job' = job
  PROVE  AllCalls' = AllCalls /\ Entry' = Entry
BY DEF AllCalls, Entry

LEMMA Entries ==
  ASSUME Types, NEW r \in Rank, NEW i \in DOMAIN queue[r]
  PROVE  /\ queue[r] \in Seq(Entry) /\ queue[r][i] \in Entry
         /\ queue[r][i].handle \in Nat /\ queue[r][i].call \in AllCalls
<1>1. queue[r] \in Seq(Entry)
  BY DEF Types
<1>2. queue[r][i] \in Entry
  BY <1>1
<1> QED
  BY <1>1, <1>2 DEF Entry

-----------------------------------------------------------------------------
(* Steps of a user thread *)

\* A rank of which nothing changes keeps its part.
LEMMA OtherRank ==
  ASSUME NEW q \in Rank, RankInv(q), job' = job,
         pos'[q] = pos[q], pc'[q] = pc[q], handle'[q] = handle[q], results'[q] = results[q],
         last_handle'[q] = last_handle[q], queue'[q] = queue[q], bg'[q] = bg[q],
         windows'[q] = windows[q], win_map'[q] = win_map[q], storage'[q] = storage[q],
         failed'[q] = failed[q]
  PROVE  RankInv(q)'
<1>1. Call(q)' = Call(q) /\ UpdateArgs(q)' = UpdateArgs(q)
  BY SameCall
<1>2. CallInv(q)'
  BY <1>1 DEF RankInv, CallInv
<1>3. QueueInv(q)'
  BY <1>1 DEF RankInv, QueueInv, WaitsFor
<1>4. RunningInv(q)'
  BY DEF RankInv, RunningInv, Operation
<1>5. RegistryInv(q)'
  BY <1>1 DEF RankInv, RegistryInv, Registering, Registered, Except
<1> QED
  BY <1>2, <1>3, <1>4, <1>5 DEF RankInv

\* A step of a user thread outside the collective calls: it has nothing in the queue that it
\* waits for, or has its result.
LEMMA UserMoves ==
  ASSUME WinInv, NEW r \in Rank,
         \A i \in DOMAIN queue[r] : ~Blocking(queue[r][i]),
         UNCHANGED <<job, windows, queue, bg>>,
         with_p' \in [Rank -> BOOLEAN], suspended' \in [Rank -> BOOLEAN],
         pos' = [pos EXCEPT ![r] = pos'[r]], pos'[r] \in Nat \ {0},
         pc' = [pc EXCEPT ![r] = pc'[r]],
         handle' = [handle EXCEPT ![r] = handle'[r]],
         last_handle' = [last_handle EXCEPT ![r] = last_handle'[r]],
         last_handle'[r] \in Nat, last_handle[r] <= last_handle'[r],
         results' = [results EXCEPT ![r] = results'[r]],
         win_map' = [win_map EXCEPT ![r] = win_map'[r]], win_map'[r] \in SUBSET Name,
         storage' = [storage EXCEPT ![r] = storage'[r]],
         storage'[r] \in [tensors : SUBSET Name, devices : SUBSET Name],
         failed' = [failed EXCEPT ![r] = failed'[r]], failed'[r] \in SUBSET Name,
         Registered(r)',
         \/ pc'[r] = "run"
         \/ pc'[r] = "wait" /\ pos'[r] \in DOMAIN job[r]
         \/ pc'[r] \in {"sync", "average", "reset"} /\ CallInv(r)'
  PROVE  WinInv'
<1>1. Types /\ RankInv(r)
  BY DEF WinInv
<1>2. Types'
  <2>1. Entry' = Entry
    BY SameCalls
  <2>2. results' = [q \in Rank |-> results'[q]] /\ handle' = [q \in Rank |-> handle'[q]]
    BY <1>1 DEF Types
  <2>3. /\ (pos \in [Rank -> Nat \ {0}])'
        /\ (last_handle \in [Rank -> Nat])'
    BY <1>1 DEF Types
  <2>4. (pc \in [Rank -> {"run", "blocked", "wait", "sync", "average", "reset"}])'
    <3>1. pc'[r] \in {"run", "blocked", "wait", "sync", "average", "reset"}
      OBVIOUS
    <3> QED
      BY <1>1, <3>1 DEF Types
  <2>5. /\ (win_map \in [Rank -> SUBSET Name])' /\ (failed \in [Rank -> SUBSET Name])'
        /\ (storage \in [Rank -> [tensors : SUBSET Name, devices : SUBSET Name]])'
    BY <1>1 DEF Types
  <2>6. /\ job' \in Jobs
        /\ (windows \in [Rank -> SUBSET Name])'
        /\ (queue \in [Rank -> Seq(Entry)])'
        /\ (bg \in [Rank -> [at : {"idle", "lock", "transfer", "version", "p", "callback"},
                             ranks : Seq(Rank)]])'
    BY <1>1, <2>1 DEF Types
  <2> QED
    BY <2>2, <2>3, <2>4, <2>5, <2>6 DEF Types
<1>3. ASSUME NEW q \in Rank, q # r PROVE RankInv(q)'
  <2>1. /\ pos'[q] = pos[q] /\ pc'[q] = pc[q] /\ handle'[q] = handle[q]
        /\ results'[q] = results[q] /\ last_handle'[q] = last_handle[q]
        /\ win_map'[q] = win_map[q] /\ storage'[q] = storage[q] /\ failed'[q] = failed[q]
    BY <1>1, <1>3 DEF Types
  <2> QED
    BY <2>1, OtherRank DEF WinInv
<1>4. RankInv(r)'
  <2>1. pc'[r] # "blocked"
    OBVIOUS
  <2>2. CallInv(r)'
    BY DEF CallInv
  <2>3. QueueInv(r)'
    <3>1. last_handle[r] \in Nat
      BY <1>1 DEF Types
    <3>2. \A i \in DOMAIN queue[r] : queue[r][i].handle \in Nat
      BY <1>1, Entries
    <3> QED
      BY <1>1, <2>1, <3>1, <3>2 DEF RankInv, QueueInv, Blocking
  <2>4. RunningInv(r)'
    BY <1>1 DEF RankInv, RunningInv, Operation
  <2>5. RegistryInv(r)'
    BY <2>1 DEF RegistryInv
  <2> QED
    BY <2>2, <2>3, <2>4, <2>5 DEF RankInv
<1> QED
  BY <1>2, <1>3, <1>4 DEF WinInv

\* Handles grow, so that a new one is not in the queue.
LEMMA AppendEntry ==
  ASSUME NEW S, NEW q \in Seq(S), NEW e \in S
  PROVE  /\ Append(q, e) \in Seq(S)
         /\ DOMAIN Append(q, e) = DOMAIN q \cup {Len(q) + 1}
         /\ Len(q) + 1 \notin DOMAIN q
         /\ Append(q, e)[Len(q) + 1] = e
         /\ \A i \in DOMAIN q : Append(q, e)[i] = q[i]
         /\ Append(q, e) # <<>>
         /\ q # <<>> => Head(Append(q, e)) = Head(q)
<1>1. /\ Append(q, e) \in Seq(S) /\ Len(q) \in Nat /\ DOMAIN q = 1 .. Len(q)
      /\ Len(Append(q, e)) = Len(q) + 1
      /\ DOMAIN Append(q, e) = 1 .. Len(q) + 1
  OBVIOUS
<1>2. /\ Append(q, e)[Len(q) + 1] = e
      /\ \A i \in DOMAIN q : Append(q, e)[i] = q[i]
  OBVIOUS
<1>3. /\ DOMAIN Append(q, e) = DOMAIN q \cup {Len(q) + 1}
      /\ Len(q) + 1 \notin DOMAIN q
  BY <1>1
<1>4. Append(q, e) # <<>>
  BY <1>1
<1>5. q # <<>> => Head(Append(q, e)) = Head(q)
  OBVIOUS
<1> QED
  BY <1>1, <1>2, <1>3, <1>4, <1>5

\* A step of a user thread that enqueues the operation of its call.
LEMMA UserEnqueues ==
  ASSUME WinInv, NEW r \in Rank, pc[r] = "run", pos[r] \in DOMAIN job[r],
         Call(r).op \in Moving \cup {"create", "free"}, Call(r).blocking \in BOOLEAN,
         Call(r).op \in Moving => DOMAIN Weights(Call(r), r) \subseteq Rank,
         Enqueue(r), ~suspended[r],
         UNCHANGED <<job, windows, bg, with_p, suspended, failed>>,
         win_map' = [win_map EXCEPT ![r] = win_map'[r]], win_map'[r] \in SUBSET Name,
         storage' = [storage EXCEPT ![r] = storage'[r]],
         storage'[r] \in [tensors : SUBSET Name, devices : SUBSET Name],
         pos' = [pos EXCEPT ![r] = pos'[r]], pos'[r] \in Nat \ {0},
         pc' = [pc EXCEPT ![r] = pc'[r]],
         handle' = [handle EXCEPT ![r] = handle'[r]],
         \/ /\ pc'[r] = IF Call(r).op \in {"create", "free"} THEN "blocked" ELSE "wait"
            /\ pos'[r] = pos[r] /\ handle'[r] = last_handle[r] + 1
         \/ /\ Call(r).op \in Moving /\ ~Call(r).blocking
            /\ pc'[r] = "run" /\ handle'[r] = handle[r],
         RegistryInv(r)'
  PROVE  WinInv'
<1> DEFINE h == last_handle[r] + 1
           e == [call |-> Call(r), handle |-> h, with_p |-> with_p[r]]
<1>1. Types /\ RankInv(r)
  BY DEF WinInv
<1>2. e \in Entry
  <2>1. Call(r) \in AllCalls
    BY <1>1, AtCall
  <2>2. h \in Nat /\ with_p[r] \in BOOLEAN
    BY <1>1 DEF Types
  <2> QED
    BY <2>1, <2>2 DEF Entry
<1>3. queue[r] \in Seq(Entry) /\ h \in Nat /\ last_handle[r] \in Nat
  BY <1>1 DEF Types
<1>4. /\ queue' = [queue EXCEPT ![r] = Append(queue[r], e)]
      /\ last_handle' = [last_handle EXCEPT ![r] = h]
      /\ results' = [results EXCEPT ![r] = Pending(results[r], h)]
  BY DEF Enqueue
<1>5. /\ queue'[r] = Append(queue[r], e) /\ last_handle'[r] = h
      /\ results'[r] = Pending(results[r], h)
  BY <1>1, <1>4 DEF Types
<1> HIDE DEF e, h
<1>6. Types'
  <2>1. Entry' = Entry
    BY SameCalls
  <2>2. results' = [q \in Rank |-> results'[q]]
    BY <1>1, <1>4 DEF Types
  <2>3. (pos \in [Rank -> Nat \ {0}])' /\ (last_handle \in [Rank -> Nat])'
    BY <1>1, <1>3, <1>4 DEF Types
  <2>4. handle' = [q \in Rank |-> handle'[q]]
    BY <1>1 DEF Types
  <2>5. (pc \in [Rank -> {"run", "blocked", "wait", "sync", "average", "reset"}])'
    <3>1. pc'[r] \in {"run", "blocked", "wait", "sync", "average", "reset"}
      OBVIOUS
    <3> QED
      BY <1>1, <3>1 DEF Types
  <2>6. (win_map \in [Rank -> SUBSET Name])'
    BY <1>1 DEF Types
  <2>7. (storage \in [Rank -> [tensors : SUBSET Name, devices : SUBSET Name]])'
    BY <1>1 DEF Types
  <2>8. (queue \in [Rank -> Seq(Entry)])'
    <3>1. Append(queue[r], e) \in Seq(Entry)
      BY <1>2, <1>3, AppendEntry
    <3> QED
      BY <1>1, <1>4, <2>1, <3>1 DEF Types
  <2>9. /\ job' \in Jobs /\ (windows \in [Rank -> SUBSET Name])'
        /\ with_p' \in [Rank -> BOOLEAN] /\ suspended' \in [Rank -> BOOLEAN]
        /\ (failed \in [Rank -> SUBSET Name])'
        /\ (bg \in [Rank -> [at : {"idle", "lock", "transfer", "version", "p", "callback"},
                             ranks : Seq(Rank)]])'
    BY <1>1 DEF Types
  <2> QED
    BY <2>2, <2>3, <2>4, <2>5, <2>6, <2>7, <2>8, <2>9 DEF Types
<1>7. ASSUME NEW q \in Rank, q # r PROVE RankInv(q)'
  <2>1. /\ pos'[q] = pos[q] /\ pc'[q] = pc[q] /\ handle'[q] = handle[q]
        /\ results'[q] = results[q] /\ last_handle'[q] = last_handle[q]
        /\ win_map'[q] = win_map[q] /\ storage'[q] = storage[q] /\ queue'[q] = queue[q]
    BY <1>1, <1>4, <1>7 DEF Types
  <2> QED
    BY <2>1, OtherRank DEF WinInv
<1>8. RankInv(r)'
  <2>1. CallInv(r)'
    BY SameCall DEF CallInv
  <2>2. QueueInv(r)'
    <3>1. /\ DOMAIN queue'[r] = DOMAIN queue[r] \cup {Len(queue[r]) + 1}
          /\ queue'[r][Len(queue[r]) + 1] = e
          /\ \A i \in DOMAIN queue[r] : queue'[r][i] = queue[r][i]
          /\ Len(queue[r]) + 1 \notin DOMAIN queue[r]
      BY <1>2, <1>3, <1>5, AppendEntry
    <3>2. \A i \in DOMAIN queue[r] : /\ queue[r][i].handle \in Nat
                                     /\ queue[r][i].handle < h
      <4>1. \A i \in DOMAIN queue[r] : queue[r][i].handle \in Nat
        BY <1>1, Entries
      <4>2. \A i \in DOMAIN queue[r] : queue[r][i].handle <= last_handle[r]
        BY <1>1 DEF RankInv, QueueInv
      <4> QED
        BY <1>3, <4>1, <4>2 DEF h
    <3>3. \A i \in DOMAIN queue[r] : /\ ~Blocking(queue[r][i])
                                     /\ queue[r][i].call.op \in Moving \cup {"create", "free"}
                                     /\ queue[r][i].call.op \in Moving =>
                                           DOMAIN Weights(queue[r][i].call, r) \subseteq Rank
      BY <1>1 DEF RankInv, QueueInv, WaitsFor
    <3>4. \A i, k \in DOMAIN queue[r] : queue[r][i].handle = queue[r][k].handle => i = k
      BY <1>1 DEF RankInv, QueueInv
    <3>5. e.call = Call(r) /\ e.handle = h
      BY DEF e
    <3>6. Blocking(e) =>
            /\ pc'[r] = IF e.call.op \in {"create", "free"} THEN "blocked" ELSE "wait"
            /\ handle'[r] = e.handle
            /\ e.handle \in DOMAIN results'[r] /\ results'[r][e.handle] = "pending"
            /\ e.call = Call(r)'
      <4> HAVE Blocking(e)
      <4>1. /\ pc'[r] = IF Call(r).op \in {"create", "free"} THEN "blocked" ELSE "wait"
            /\ pos'[r] = pos[r] /\ handle'[r] = h
        BY <3>5 DEF Blocking, Moving, h
      <4>2. h \in DOMAIN results'[r] /\ results'[r][h] = "pending"
        BY <1>5 DEF Pending
      <4>3. Call(r)' = Call(r)
        BY <4>1, SameCall
      <4> QED
        BY <3>5, <4>1, <4>2, <4>3
    <3>7. pc'[r] = "blocked" => Blocking(e) /\ handle'[r] = h
      BY <3>5 DEF Blocking, h
    <3>8. /\ e.call.op \in Moving \cup {"create", "free"}
          /\ e.call.op \in Moving => DOMAIN Weights(e.call, r) \subseteq Rank
      BY <3>5
    <3> QED
      <4> SUFFICES ASSUME NEW i \in DOMAIN queue'[r]
                   PROVE  /\ queue'[r][i].call.op \in Moving \cup {"create", "free"}
                          /\ queue'[r][i].call.op \in Moving =>
                                DOMAIN Weights(queue'[r][i].call, r) \subseteq Rank
                          /\ queue'[r][i].handle <= last_handle'[r]
                          /\ \A k \in DOMAIN queue'[r] :
                                queue'[r][i].handle = queue'[r][k].handle => i = k
                          /\ Blocking(queue'[r][i]) => WaitsFor(r, queue[r][i])'
                          /\ pc'[r] = "blocked" /\ queue'[r][i].handle = handle'[r] =>
                                Blocking(queue'[r][i])
        BY DEF QueueInv
      <4>1. CASE i = Len(queue[r]) + 1
        BY <1>3, <1>5, <3>1, <3>2, <3>5, <3>6, <3>7, <3>8, <4>1 DEF WaitsFor
      <4>2. CASE i \in DOMAIN queue[r]
        BY <1>3, <1>5, <3>1, <3>2, <3>3, <3>4, <3>5, <3>7, <4>2
      <4> QED
        BY <3>1, <4>1, <4>2
  <2>3. RunningInv(r)'
    <3>1. queue'[r] # <<>> /\ (queue[r] # <<>> => Head(queue'[r]) = Head(queue[r]))
      BY <1>2, <1>3, <1>5, AppendEntry
    <3> QED
      BY <1>1, <3>1 DEF RankInv, RunningInv, Operation
  <2> QED
    BY <2>1, <2>2, <2>3 DEF RankInv
<1> QED
  BY <1>6, <1>7, <1>8 DEF WinInv

\* A step of a background thread inside an operation.
LEMMA BackgroundMoves ==
  ASSUME WinInv, NEW r \in Rank,
         UNCHANGED <<python, results, last_handle, storage, windows, with_p, queue>>,
         bg' = [bg EXCEPT ![r] = bg'[r]],
         bg'[r] \in [at : {"idle", "lock", "transfer", "version", "p", "callback"},
                     ranks : Seq(Rank)],
         RunningInv(r)'
  PROVE  WinInv'
<1>1. Types /\ RankInv(r)
  BY DEF WinInv
<1>2. UNCHANGED <<job, pos, pc, handle, win_map, suspended, failed>>
  BY DEF python
<1>3. Types'
  <2>1. Entry' = Entry
    BY <1>2, SameCalls
  <2>2. (bg \in [Rank -> [at : {"idle", "lock", "transfer", "version", "p", "callback"},
                          ranks : Seq(Rank)]])'
    BY <1>1 DEF Types
  <2>3. (queue \in [Rank -> Seq(Entry)])'
    BY <1>1, <2>1 DEF Types
  <2> QED
    BY <1>1, <1>2, <2>2, <2>3 DEF Types
<1>4. ASSUME NEW q \in Rank, q # r PROVE RankInv(q)'
  <2>1. bg'[q] = bg[q]
    BY <1>1, <1>4 DEF Types
  <2> QED
    BY <1>2, <2>1, OtherRank DEF WinInv
<1>5. RankInv(r)'
  <2>1. Call(r)' = Call(r) /\ UpdateArgs(r)' = UpdateArgs(r)
    BY <1>2, SameCall
  <2>2. CallInv(r)'
    BY <1>1, <1>2, <2>1 DEF RankInv, CallInv
  <2>3. QueueInv(r)'
    BY <1>1, <1>2, <2>1 DEF RankInv, QueueInv, WaitsFor
  <2>4. RegistryInv(r)'
    BY <1>1, <1>2, <2>1 DEF RankInv, RegistryInv, Registering, Registered, Except
  <2> QED
    BY <2>2, <2>3, <2>4 DEF RankInv
<1> QED
  BY <1>3, <1>4, <1>5 DEF WinInv

-----------------------------------------------------------------------------
(* The actions of a user thread *)

LEMMA CallFacts ==
  ASSUME WinInv, NEW r \in Rank, NEW where, InCall(r, where)
  PROVE  /\ pos[r] \in DOMAIN job[r] /\ pos[r] \in Nat \ {0} /\ pc[r] = where
         /\ Types /\ RankInv(r)
         /\ Call(r).blocking \in BOOLEAN /\ Call(r).flag \in BOOLEAN
         /\ Call(r).op = "create" => Call(r).name \in Name
<1>1. Types /\ RankInv(r)
  BY DEF WinInv
<1>2. ~Ended(r) /\ pc[r] = where
  BY DEF InCall
<1>3. pos[r] \in DOMAIN job[r] /\ pos[r] \in Nat \ {0} /\ job \in Jobs
  BY <1>1, <1>2, AtCall DEF Types
<1> QED
  BY <1>1, <1>2, <1>3, ScriptTypes DEF Call

\* Nothing is in the queue that the user thread has to wait for.
LEMMA NothingBlocking ==
  ASSUME WinInv, NEW r \in Rank,
         pc[r] \notin {"blocked", "wait"} \/ handle[r] \notin DOMAIN results[r] \/ Done(r)
  PROVE  \A i \in DOMAIN queue[r] : ~Blocking(queue[r][i])
BY DEF WinInv, RankInv, QueueInv, WaitsFor, Done

LEMMA Known ==
  ASSUME WinInv, NEW r \in Rank, pc[r] # "blocked"
  PROVE  /\ Registered(r)
         /\ win_map[r] \in SUBSET Name /\ failed[r] \in SUBSET Name
         /\ storage[r] \in [tensors : SUBSET Name, devices : SUBSET Name]
         /\ UNCHANGED <<win_map, storage, windows, failed>> => Registered(r)'
<1>1. Registered(r)
  BY DEF WinInv, RankInv, RegistryInv
<1>2. UNCHANGED <<win_map, storage, windows, failed>> => Registered(r)'
  BY <1>1 DEF Registered, Except
<1> QED
  BY <1>1, <1>2 DEF WinInv, Types

\* What Return and GoTo do.
LEMMA Returns ==
  ASSUME Types, NEW r \in Rank, Return(r)
  PROVE  /\ pos' = [pos EXCEPT ![r] = pos'[r]] /\ pos'[r] \in Nat \ {0}
         /\ pc' = [pc EXCEPT ![r] = pc'[r]] /\ pc'[r] = "run"
<1>1. pos \in [Rank -> Nat \ {0}] /\ DOMAIN pc = Rank
  BY DEF Types
<1>2. pos' = [pos EXCEPT ![r] = pos[r] + 1] /\ pc' = [pc EXCEPT ![r] = "run"]
  BY DEF Return
<1>3. pos'[r] = pos[r] + 1 /\ pc'[r] = "run" /\ pos[r] \in Nat
  BY <1>1, <1>2
<1>4. pos' = [pos EXCEPT ![r] = pos'[r]] /\ pc' = [pc EXCEPT ![r] = pc'[r]]
  BY <1>2, <1>3
<1>5. pos'[r] \in Nat \ {0}
  BY <1>3
<1> QED
  BY <1>3, <1>4, <1>5

LEMMA Goes ==
  ASSUME Types, NEW r \in Rank, NEW where, GoTo(r, where)
  PROVE  /\ pos' = pos /\ pos' = [pos EXCEPT ![r] = pos'[r]] /\ pos'[r] \in Nat \ {0}
         /\ pc' = [pc EXCEPT ![r] = pc'[r]] /\ pc'[r] = where
<1>1. pos \in [Rank -> Nat \ {0}] /\ DOMAIN pc = Rank
  BY DEF Types
<1>2. pos' = pos /\ pc' = [pc EXCEPT ![r] = where]
  BY DEF GoTo
<1> QED
  BY <1>1, <1>2

\* Variables of a rank that a step leaves alone.
LEMMA Same ==
  ASSUME Types, NEW r \in Rank
  PROVE  /\ win_map' = win_map => win_map' = [win_map EXCEPT ![r] = win_map'[r]]
         /\ storage' = storage => storage' = [storage EXCEPT ![r] = storage'[r]]
         /\ handle' = handle => handle' = [handle EXCEPT ![r] = handle'[r]]
         /\ last_handle' = last_handle =>
               /\ last_handle' = [last_handle EXCEPT ![r] = last_handle'[r]]
               /\ last_handle'[r] \in Nat /\ last_handle[r] <= last_handle'[r]
         /\ results' = results => results' = [results EXCEPT ![r] = results'[r]]
         /\ failed' = failed => failed' = [failed EXCEPT ![r] = failed'[r]]
         /\ suspended' = suspended => suspended' \in [Rank -> BOOLEAN]
<1>1. /\ win_map \in [Rank -> SUBSET Name] /\ last_handle \in [Rank -> Nat]
      /\ storage \in [Rank -> [tensors : SUBSET Name, devices : SUBSET Name]]
  BY DEF Types
<1>2. results = [q \in Rank |-> results[q]] /\ handle = [q \in Rank |-> handle[q]]
  BY DEF Types
<1>3. results' = results => results' = [results EXCEPT ![r] = results'[r]]
  BY <1>2
<1>4. win_map' = win_map => win_map' = [win_map EXCEPT ![r] = win_map'[r]]
  BY <1>1
<1>5. storage' = storage => storage' = [storage EXCEPT ![r] = storage'[r]]
  BY <1>1
<1>6. handle' = handle => handle' = [handle EXCEPT ![r] = handle'[r]]
  BY <1>2
<1>7. last_handle' = last_handle =>
         /\ last_handle' = [last_handle EXCEPT ![r] = last_handle'[r]]
         /\ last_handle'[r] \in Nat /\ last_handle[r] <= last_handle'[r]
  BY <1>1
<1>8. /\ failed' = failed => failed' = [failed EXCEPT ![r] = failed'[r]]
      /\ suspended' = suspended => suspended' \in [Rank -> BOOLEAN]
  BY DEF Types
<1> QED
  BY <1>3, <1>4, <1>5, <1>6, <1>7, <1>8

\* The steps of win_update, win_mutex, set_associated_p, suspend and resume.
LEMMA UpdateMoves ==
  ASSUME WinInv, NEW r \in Rank, NEW where \in {"run", "sync", "average", "reset"},
         InCall(r, where),
         UNCHANGED <<job, handle, win_map, results, last_handle, storage, windows, queue, bg,
                     failed>>,
         with_p' \in [Rank -> BOOLEAN], suspended' \in [Rank -> BOOLEAN],
         \/ Return(r)
         \/ \E to \in {"sync", "average", "reset"} :
               GoTo(r, to) /\ Call(r).op \in {"update", "collect"} /\ UpdateArgs(r).ok
  PROVE  WinInv'
<1>1. /\ pos[r] \in DOMAIN job[r] /\ pc[r] = where /\ Types /\ RankInv(r)
  BY CallFacts
<1>2. \A i \in DOMAIN queue[r] : ~Blocking(queue[r][i])
  BY <1>1, NothingBlocking
<1>3. /\ Registered(r)' /\ win_map'[r] \in SUBSET Name /\ failed'[r] \in SUBSET Name
      /\ storage'[r] \in [tensors : SUBSET Name, devices : SUBSET Name]
  BY <1>1, Known
<1>4. CASE Return(r)
  <2>1. /\ pos' = [pos EXCEPT ![r] = pos'[r]] /\ pos'[r] \in Nat \ {0}
        /\ pc' = [pc EXCEPT ![r] = pc'[r]] /\ pc'[r] = "run"
    BY <1>1, <1>4, Returns
  <2> QED
    BY <1>1, <1>2, <1>3, <2>1, Same, UserMoves
<1>5. ASSUME NEW to \in {"sync", "average", "reset"}, GoTo(r, to),
             Call(r).op \in {"update", "collect"}, UpdateArgs(r).ok
      PROVE  WinInv'
  <2>1. /\ pos' = pos /\ pos' = [pos EXCEPT ![r] = pos'[r]] /\ pos'[r] \in Nat \ {0}
        /\ pc' = [pc EXCEPT ![r] = pc'[r]] /\ pc'[r] = to
    BY <1>1, <1>5, Goes
  <2>2. CallInv(r)'
    BY <1>1, <1>5, <2>1, SameCall DEF CallInv
  <2> QED
    BY <1>1, <1>2, <1>3, <1>5, <2>1, <2>2, Same, UserMoves
<1> QED
  BY <1>4, <1>5

LEMMA UpdateSteps ==
  ASSUME WinInv, NEW r \in Rank,
         \/ WinUpdate(r) \/ WindowSync(r) \/ Average(r) \/ Reset(r)
         \/ ExitMutex(r) \/ SetAssociatedP(r) \/ SetSuspended(r)
  PROVE  WinInv'
<1>1. Types /\ \A q \in Rank : RankInv(q)
  BY DEF WinInv
<1>2. with_p \in [Rank -> BOOLEAN] /\ suspended \in [Rank -> BOOLEAN]
  BY <1>1 DEF Types
<1>3. CASE WinUpdate(r)
  <2>1. /\ InCall(r, "run") /\ Call(r).op \in {"update", "collect"}
        /\ UNCHANGED <<job, handle, win_map, results, last_handle, storage, windows, queue, bg,
                       failed, suspended>>
        /\ with_p' = with_p
    BY <1>3 DEF WinUpdate, Updates, UpdateStep, library
  <2>2. Return(r) \/ (GoTo(r, "sync") /\ UpdateArgs(r).ok)
    BY <1>3 DEF WinUpdate
  <2> QED
    BY <1>2, <2>1, <2>2, UpdateMoves
<1>4. CASE WindowSync(r)
  <2>1. /\ InCall(r, "sync") /\ Call(r).op \in {"update", "collect"} /\ GoTo(r, "average")
        /\ UNCHANGED <<job, handle, win_map, results, last_handle, storage, windows, queue, bg,
                       failed, suspended>>
        /\ with_p' = with_p
    BY <1>4 DEF WindowSync, Updates, UpdateStep, library
  <2>2. UpdateArgs(r).ok
    BY <1>1, <2>1 DEF RankInv, CallInv, InCall
  <2> QED
    BY <1>2, <2>1, <2>2, UpdateMoves
<1>5. CASE Average(r)
  <2>1. /\ InCall(r, "average") /\ Call(r).op \in {"update", "collect"}
        /\ Return(r) \/ GoTo(r, "reset")
        /\ UNCHANGED <<job, handle, win_map, results, last_handle, storage, windows, queue, bg,
                       failed, suspended>>
        /\ with_p' = with_p
    BY <1>5 DEF Average, Updates, UpdateStep, library
  <2>2. UpdateArgs(r).ok
    BY <1>1, <2>1 DEF RankInv, CallInv, InCall
  <2> QED
    BY <1>2, <2>1, <2>2, UpdateMoves
<1>6. CASE Reset(r)
  <2>1. /\ InCall(r, "reset") /\ Return(r)
        /\ UNCHANGED <<job, handle, win_map, results, last_handle, storage, windows, queue, bg,
                       failed, suspended>>
        /\ with_p' = with_p
    BY <1>6 DEF Reset, Updates, UpdateStep, library
  <2> QED
    BY <1>2, <2>1, UpdateMoves
<1>7. CASE ExitMutex(r)
  <2>1. /\ InCall(r, "run") /\ Return(r)
        /\ UNCHANGED <<job, handle, win_map, results, last_handle, storage, windows, queue, bg,
                       failed, suspended>>
        /\ with_p' = with_p
    BY <1>7 DEF ExitMutex, Calls, UpdateStep, library
  <2> QED
    BY <1>2, <2>1, UpdateMoves
<1>8. CASE SetAssociatedP(r)
  <2>1. /\ InCall(r, "run") /\ Return(r)
        /\ UNCHANGED <<job, handle, win_map, results, last_handle, storage, windows, queue, bg,
                       failed, suspended>>
        /\ with_p' = [with_p EXCEPT ![r] = Call(r).flag]
    BY <1>8 DEF SetAssociatedP, Calls
  <2>2. Call(r).flag \in BOOLEAN
    BY <2>1, CallFacts
  <2>3. with_p' \in [Rank -> BOOLEAN]
    BY <1>2, <2>1, <2>2
  <2> QED
    BY <1>2, <2>1, <2>3, UpdateMoves
<1>9. CASE SetSuspended(r)
  <2>1. /\ InCall(r, "run") /\ Return(r)
        /\ UNCHANGED <<job, handle, win_map, results, last_handle, storage, windows, queue, bg,
                       failed, with_p>>
        /\ suspended' = [suspended EXCEPT ![r] = Call(r).op = "suspend"]
    BY <1>9 DEF SetSuspended, Calls, library
  <2>2. suspended' \in [Rank -> BOOLEAN]
    BY <1>2, <2>1
  <2> QED
    BY <1>2, <2>1, <2>2, UpdateMoves
<1> QED
  BY <1>3, <1>4, <1>5, <1>6, <1>7, <1>8, <1>9

\* A block that is not entered is stepped over.
LEMMA EnterStep ==
  ASSUME WinInv, NEW r \in Rank, EnterMutex(r)
  PROVE  WinInv'
<1>1. /\ InCall(r, "run") /\ Call(r).op = "enter"
      /\ UNCHANGED <<job, handle, win_map, results, last_handle, storage, windows, queue, bg,
                       failed, suspended>>
      /\ with_p' = with_p
  BY DEF EnterMutex, Calls, UpdateStep, library
<1>2. /\ pos[r] \in DOMAIN job[r] /\ pc[r] = "run" /\ Types /\ RankInv(r)
  BY <1>1, CallFacts
<1>3. with_p' \in [Rank -> BOOLEAN] /\ suspended' \in [Rank -> BOOLEAN]
  BY <1>1, <1>2 DEF Types
<1>4. CASE Return(r)
  BY <1>1, <1>3, <1>4, UpdateMoves
<1>5. CASE pos' = [pos EXCEPT ![r] = AfterBlock(r)] /\ UNCHANGED pc
  <2>1. job \in Jobs /\ DOMAIN pos = Rank /\ DOMAIN pc = Rank /\ pos[r] \in Nat \ {0}
    BY <1>2 DEF Types
  <2>2. Len(job[r]) \in Nat
    BY <2>1, ScriptTypes
  <2>3. \E k \in pos[r] .. Len(job[r]) : BlockEnds(job[r], pos[r], k)
    BY <1>1, <1>2, <2>1, JobsAssumption DEF Call
  <2>4. AfterBlock(r) \in Nat \ {0}
    BY <2>1, <2>2, <2>3 DEF AfterBlock
  <2>5. /\ pos' = [pos EXCEPT ![r] = pos'[r]] /\ pos'[r] \in Nat \ {0}
        /\ pc' = [pc EXCEPT ![r] = pc'[r]] /\ pc'[r] = "run"
    <3>1. pos'[r] = AfterBlock(r) /\ pc'[r] = "run"
      BY <1>2, <1>5, <2>1
    <3>2. pos' = [pos EXCEPT ![r] = pos'[r]]
      BY <1>5, <3>1
    <3>3. pc' = [pc EXCEPT ![r] = pc'[r]]
      BY <1>2, <1>5 DEF Types
    <3> QED
      BY <2>4, <3>1, <3>2, <3>3
  <2>6. \A i \in DOMAIN queue[r] : ~Blocking(queue[r][i])
    BY <1>2, NothingBlocking
  <2>7. /\ Registered(r)' /\ win_map'[r] \in SUBSET Name /\ failed'[r] \in SUBSET Name
        /\ storage'[r] \in [tensors : SUBSET Name, devices : SUBSET Name]
    BY <1>1, <1>2, Known
  <2> QED
    BY <1>1, <1>2, <1>3, <2>5, <2>6, <2>7, Same, UserMoves
<1> QED
  BY <1>4, <1>5 DEF EnterMutex

LEMMA WaitSteps ==
  ASSUME WinInv, NEW r \in Rank, WinWait(r) \/ WinWaited(r) \/ WinCreated(r)
  PROVE  WinInv'
<1>1. Types /\ RankInv(r)
  BY DEF WinInv
<1>2. with_p \in [Rank -> BOOLEAN] /\ suspended \in [Rank -> BOOLEAN]
  BY <1>1 DEF Types
<1>3. results = [q \in Rank |-> results[q]] /\ handle = [q \in Rank |-> handle[q]]
  BY <1>1 DEF Types
<1>4. CASE WinWait(r)
  <2>1. /\ InCall(r, "run")
        /\ UNCHANGED <<job, win_map, results, last_handle, storage, windows, queue, bg, with_p,
                       failed, suspended>>
    BY <1>4 DEF WinWait, Calls, library
  <2>2. /\ pos[r] \in DOMAIN job[r] /\ pc[r] = "run"
    BY <2>1, CallFacts
  <2>3. \A i \in DOMAIN queue[r] : ~Blocking(queue[r][i])
    BY <2>2, NothingBlocking
  <2>4. /\ Registered(r)' /\ win_map'[r] \in SUBSET Name /\ failed'[r] \in SUBSET Name
        /\ storage'[r] \in [tensors : SUBSET Name, devices : SUBSET Name]
    BY <2>1, <2>2, Known
  <2>5. CASE Return(r) /\ UNCHANGED handle
    <3>1. /\ pos' = [pos EXCEPT ![r] = pos'[r]] /\ pos'[r] \in Nat \ {0}
          /\ pc' = [pc EXCEPT ![r] = pc'[r]] /\ pc'[r] = "run"
      BY <1>1, <2>5, Returns
    <3> QED
      BY <1>1, <1>2, <2>1, <2>3, <2>4, <2>5, <3>1, Same, UserMoves
  <2>6. CASE /\ win_handle_map[r] # {}
             /\ GoTo(r, "wait")
             /\ handle' = [handle EXCEPT ![r] = CHOOSE h \in win_handle_map[r] :
                                                  \A g \in win_handle_map[r] : h <= g]
    <3> DEFINE oldest == CHOOSE h \in win_handle_map[r] : \A g \in win_handle_map[r] : h <= g
    <3> HIDE DEF oldest
    <3>1. /\ pos' = pos /\ pos' = [pos EXCEPT ![r] = pos'[r]] /\ pos'[r] \in Nat \ {0}
          /\ pc' = [pc EXCEPT ![r] = pc'[r]] /\ pc'[r] = "wait"
      BY <1>1, <2>6, Goes
    <3>2. handle' = [handle EXCEPT ![r] = handle'[r]]
      <4>1. handle' = [handle EXCEPT ![r] = oldest]
        BY <2>6 DEF oldest
      <4> QED
        BY <1>3, <4>1
    <3> QED
      BY <1>1, <1>2, <2>1, <2>2, <2>3, <2>4, <3>1, <3>2, Same, UserMoves
  <2> QED
    BY <1>4, <2>5, <2>6 DEF WinWait
<1>5. CASE WinWaited(r)
  <2>1. /\ InCall(r, "wait") /\ Return(r)
        /\ UNCHANGED <<job, handle, win_map, last_handle, storage, windows, queue, bg, with_p,
                       failed, suspended>>
        /\ (handle[r] \notin DOMAIN results[r] /\ UNCHANGED results) \/ (Done(r) /\ ReleaseHandle(r))
    BY <1>5 DEF WinWaited
  <2>2. /\ pos[r] \in DOMAIN job[r] /\ pc[r] = "wait"
    BY <2>1, CallFacts
  <2>3. \A i \in DOMAIN queue[r] : ~Blocking(queue[r][i])
    BY <2>1, NothingBlocking
  <2>4. /\ Registered(r)' /\ win_map'[r] \in SUBSET Name /\ failed'[r] \in SUBSET Name
        /\ storage'[r] \in [tensors : SUBSET Name, devices : SUBSET Name]
    BY <2>1, <2>2, Known
  <2>5. results' = [results EXCEPT ![r] = results'[r]]
    BY <1>3, <2>1 DEF ReleaseHandle
  <2>6. /\ pos' = [pos EXCEPT ![r] = pos'[r]] /\ pos'[r] \in Nat \ {0}
        /\ pc' = [pc EXCEPT ![r] = pc'[r]] /\ pc'[r] = "run"
    BY <1>1, <2>1, Returns
  <2> QED
    BY <1>1, <1>2, <2>1, <2>3, <2>4, <2>5, <2>6, Same, UserMoves
<1>6. CASE WinCreated(r)
  <2>1. /\ InCall(r, "blocked") /\ Return(r) /\ Done(r) /\ ReleaseHandle(r)
        /\ UNCHANGED <<job, handle, last_handle, storage, windows, queue, bg, with_p, suspended>>
        /\ win_map' = IF Call(r).op = "create" /\ results[r][handle[r]] = "ok"
                      THEN [win_map EXCEPT ![r] = @ \cup {Call(r).name}] ELSE win_map
        /\ failed' = [failed EXCEPT ![r] =
               CASE results[r][handle[r]] # "ok" -> failed[r] \cup {Call(r).name}
                 [] Call(r).op = "free" /\ "name" \notin Call(r).has -> {}
                 [] OTHER -> failed[r]]
    BY <1>6 DEF WinCreated
  <2>2. /\ pos[r] \in DOMAIN job[r] /\ pc[r] = "blocked"
    BY <2>1, CallFacts
  <2>3. \A i \in DOMAIN queue[r] : ~Blocking(queue[r][i])
    BY <2>1, NothingBlocking
  <2>4. Registering(r) /\ Call(r).op \in {"create", "free"}
    BY <1>1, <2>2 DEF RankInv, RegistryInv, CallInv
  <2>5. results[r][handle[r]] # "pending" /\ (Call(r).op = "create" => Call(r).name \in Name)
    BY <2>1, CallFacts DEF Done
  <2>6. /\ win_map \in [Rank -> SUBSET Name] /\ failed \in [Rank -> SUBSET Name]
        /\ storage[r] \in [tensors : SUBSET Name, devices : SUBSET Name]
    BY <1>1 DEF Types
  <2>7. /\ win_map' = [win_map EXCEPT ![r] = win_map'[r]] /\ win_map'[r] \in SUBSET Name
        /\ failed' = [failed EXCEPT ![r] = failed'[r]] /\ failed'[r] \in SUBSET Name
        /\ Registered(r)'
    <3>1. CASE Call(r).op = "create" /\ results[r][handle[r]] = "ok"
      <4>1. win_map'[r] = win_map[r] \cup {Call(r).name} /\ failed'[r] = failed[r]
        BY <2>1, <2>6, <3>1
      <4>2. win_map' = [win_map EXCEPT ![r] = win_map'[r]] /\ failed' = failed
        BY <2>1, <2>6, <3>1, <4>1
      <4>3. Registered(r)'
        BY <2>1, <2>4, <3>1, <4>1 DEF Registering, Registered, Except
      <4> QED
        BY <1>1, <2>5, <2>6, <3>1, <4>1, <4>2, <4>3, Same
    <3>2. CASE Call(r).op = "create" /\ results[r][handle[r]] # "ok"
      <4>1. win_map' = win_map /\ failed' = [failed EXCEPT ![r] = failed[r] \cup {Call(r).name}]
        BY <2>1, <3>2
      <4>2. failed'[r] = failed[r] \cup {Call(r).name}
        BY <2>6, <4>1
      <4>3. Registered(r)'
        BY <2>1, <2>4, <3>2, <4>1, <4>2 DEF Registering, Registered, Except
      <4> QED
        BY <1>1, <2>5, <2>6, <3>2, <4>1, <4>2, <4>3, Same
    <3>3. CASE Call(r).op = "free" /\ "name" \notin Call(r).has
      <4>1. win_map' = win_map /\ failed' = [failed EXCEPT ![r] = {}]
        BY <2>1, <2>4, <2>5, <3>3 DEF Registering
      <4>2. failed'[r] = {}
        BY <2>6, <4>1
      <4>3. Registered(r)'
        BY <2>1, <2>4, <2>5, <3>3, <4>1, <4>2 DEF Registering, Registered, Except
      <4> QED
        BY <1>1, <2>6, <4>1, <4>2, <4>3, Same
    <3>4. CASE Call(r).op = "free" /\ "name" \in Call(r).has
      <4>1. win_map' = win_map /\ failed' = [failed EXCEPT ![r] = failed[r]]
        BY <2>1, <2>4, <2>5, <3>4 DEF Registering
      <4>2. failed' = failed
        BY <2>6, <4>1
      <4>3. Registered(r)'
        BY <2>1, <2>4, <2>5, <3>4, <4>1, <4>2 DEF Registering, Registered, Except
      <4> QED
        BY <1>1, <2>6, <4>1, <4>2, <4>3, Same
    <3> QED
      BY <2>4, <3>1, <3>2, <3>3, <3>4
  <2>8. results' = [results EXCEPT ![r] = results'[r]]
    BY <1>3, <2>1 DEF ReleaseHandle
  <2>9. /\ pos' = [pos EXCEPT ![r] = pos'[r]] /\ pos'[r] \in Nat \ {0}
        /\ pc' = [pc EXCEPT ![r] = pc'[r]] /\ pc'[r] = "run"
    BY <1>1, <2>1, Returns
  <2> QED
    BY <1>1, <1>2, <2>1, <2>3, <2>6, <2>7, <2>8, <2>9, Same, UserMoves
<1> QED
  BY <1>4, <1>5, <1>6

\* What Enqueue does to the handles.
LEMMA Enqueued ==
  ASSUME Types, NEW r \in Rank, Enqueue(r)
  PROVE  /\ last_handle'[r] = last_handle[r] + 1
         /\ last_handle'[r] \in DOMAIN results'[r]
         /\ results'[r][last_handle'[r]] = "pending"
         /\ last_handle' = [last_handle EXCEPT ![r] = last_handle'[r]]
         /\ last_handle'[r] \in Nat /\ last_handle[r] <= last_handle'[r]
         /\ results' = [results EXCEPT ![r] = results'[r]]
<1>1. last_handle \in [Rank -> Nat] /\ DOMAIN results = Rank
  BY DEF Types
<1>2. /\ last_handle' = [last_handle EXCEPT ![r] = last_handle[r] + 1]
      /\ results' = [results EXCEPT ![r] = Pending(results[r], last_handle[r] + 1)]
  BY DEF Enqueue
<1>3. /\ last_handle'[r] = last_handle[r] + 1
      /\ results'[r] = Pending(results[r], last_handle[r] + 1)
  BY <1>1, <1>2
<1>4. /\ last_handle' = [last_handle EXCEPT ![r] = last_handle'[r]]
      /\ results' = [results EXCEPT ![r] = results'[r]]
  BY <1>2, <1>3
<1>5. last_handle'[r] \in Nat /\ last_handle[r] <= last_handle'[r]
  BY <1>1, <1>3
<1> QED
  BY <1>3, <1>4, <1>5 DEF Pending

\* A call that returns without an effect.
LEMMA Refused ==
  ASSUME WinInv, NEW r \in Rank, InCall(r, "run"), Return(r),
         UNCHANGED <<job, handle, win_map, results, last_handle, storage, windows, queue, bg,
                     with_p, failed, suspended>>
  PROVE  WinInv'
<1>1. with_p \in [Rank -> BOOLEAN] /\ suspended \in [Rank -> BOOLEAN]
  BY DEF WinInv, Types
<1> QED
  BY <1>1, UpdateMoves

\* An operation that was refused leaves a handle behind.
LEMMA RefusedLate ==
  ASSUME WinInv, NEW r \in Rank, InCall(r, "run"), Return(r), Enqueue(r), suspended[r],
         UNCHANGED <<job, handle, windows, bg, with_p, suspended>>,
         win_map' = [win_map EXCEPT ![r] = win_map'[r]], win_map'[r] \in SUBSET Name,
         storage' = [storage EXCEPT ![r] = storage'[r]],
         storage'[r] \in [tensors : SUBSET Name, devices : SUBSET Name],
         failed' = [failed EXCEPT ![r] = failed'[r]], failed'[r] \in SUBSET Name,
         Registered(r)'
  PROVE  WinInv'
<1>1. /\ pc[r] = "run" /\ Types
  BY CallFacts
<1>2. \A i \in DOMAIN queue[r] : ~Blocking(queue[r][i])
  BY <1>1, NothingBlocking
<1>3. /\ pos' = [pos EXCEPT ![r] = pos'[r]] /\ pos'[r] \in Nat \ {0}
      /\ pc' = [pc EXCEPT ![r] = pc'[r]] /\ pc'[r] = "run"
  BY <1>1, Returns
<1>4. /\ last_handle' = [last_handle EXCEPT ![r] = last_handle'[r]]
      /\ last_handle'[r] \in Nat /\ last_handle[r] <= last_handle'[r]
      /\ results' = [results EXCEPT ![r] = results'[r]]
  BY <1>1, Enqueued
<1>5. queue' = queue
  BY DEF Enqueue
<1>6. with_p' \in [Rank -> BOOLEAN] /\ suspended' \in [Rank -> BOOLEAN]
  BY <1>1 DEF Types
<1> QED
  BY <1>1, <1>2, <1>3, <1>4, <1>5, <1>6, Same, UserMoves

LEMMA CreateStep ==
  ASSUME WinInv, NEW r \in Rank, WinCreate(r)
  PROVE  WinInv'
<1> DEFINE c == Call(r)
<1>1. InCall(r, "run") /\ c.op = "create" /\ UNCHANGED <<job, win_map, suspended>>
  BY DEF WinCreate, Calls
<1>2. /\ pos[r] \in DOMAIN job[r] /\ pc[r] = "run" /\ Types /\ RankInv(r)
      /\ c.blocking \in BOOLEAN /\ c.name \in Name
  BY <1>1, CallFacts
<1>3. CASE Return(r) /\ UNCHANGED <<handle, failed, library>>
  BY <1>1, <1>3, Refused DEF library
<1>4. CASE /\ c.name \notin storage[r].tensors
           /\ storage' = [storage EXCEPT ![r] = [tensors |-> @.tensors \cup {c.name},
                                                 devices |-> @.devices \cup {c.name}]]
           /\ Block(r, {c.name})
           /\ UNCHANGED <<windows, with_p, bg>>
  <2>1. /\ Registered(r) /\ win_map[r] \in SUBSET Name /\ failed[r] \in SUBSET Name
        /\ storage[r] \in [tensors : SUBSET Name, devices : SUBSET Name]
    BY <1>2, Known
  <2>2. DOMAIN storage = Rank /\ DOMAIN handle = Rank /\ DOMAIN failed = Rank
    BY <1>2 DEF Types
  <2>3. storage'[r] = [tensors |-> storage[r].tensors \cup {c.name},
                       devices |-> storage[r].devices \cup {c.name}]
    BY <1>4, <2>2
  <2>4. /\ storage' = [storage EXCEPT ![r] = storage'[r]]
        /\ storage'[r] \in [tensors : SUBSET Name, devices : SUBSET Name]
    <3>1. storage' = [storage EXCEPT ![r] = storage'[r]]
      BY <1>4, <2>3
    <3>2. storage'[r] \in [tensors : SUBSET Name, devices : SUBSET Name]
      BY <1>2, <2>1, <2>3
    <3> QED
      BY <3>1, <3>2
  <2>5. Enqueue(r)
    BY <1>4 DEF Block
  <2>6. CASE suspended[r]
    <3>1. Return(r) /\ failed' = [failed EXCEPT ![r] = @ \cup {c.name}] /\ UNCHANGED handle
      BY <1>4, <2>6 DEF Block
    <3>2. failed'[r] = failed[r] \cup {c.name}
      BY <2>2, <3>1
    <3>3. failed' = [failed EXCEPT ![r] = failed'[r]] /\ failed'[r] \in SUBSET Name
      BY <1>2, <2>1, <3>1, <3>2
    <3>4. Registered(r)'
      BY <1>1, <1>4, <2>1, <2>3, <3>2 DEF Registered, Except
    <3> QED
      BY <1>1, <1>2, <1>4, <2>1, <2>4, <2>5, <2>6, <3>1, <3>3, <3>4, Same, RefusedLate
  <2>7. CASE ~suspended[r]
    <3>1. /\ GoTo(r, "blocked") /\ handle' = [handle EXCEPT ![r] = last_handle'[r]]
          /\ UNCHANGED failed
      BY <1>4, <2>7 DEF Block
    <3>2. /\ pos' = pos /\ pos' = [pos EXCEPT ![r] = pos'[r]] /\ pos'[r] \in Nat \ {0}
          /\ pc' = [pc EXCEPT ![r] = pc'[r]] /\ pc'[r] = "blocked"
      BY <1>2, <3>1, Goes
    <3>3. /\ last_handle'[r] = last_handle[r] + 1
          /\ last_handle'[r] \in DOMAIN results'[r]
          /\ results'[r][last_handle'[r]] = "pending"
      BY <1>2, <2>5, Enqueued
    <3>4. handle'[r] = last_handle'[r]
      BY <2>2, <3>1
    <3>5. handle' = [handle EXCEPT ![r] = handle'[r]]
      BY <3>1, <3>4
    <3>6. Call(r)' = c
      BY <1>1, <3>2, SameCall
    <3>7. Registering(r)'
      BY <1>1, <1>4, <2>1, <2>3, <3>1, <3>3, <3>4, <3>6 DEF Registering, Registered, Except
    <3>8. RegistryInv(r)'
      BY <3>2, <3>7 DEF RegistryInv
    <3> QED
      BY <1>1, <1>2, <1>4, <2>1, <2>4, <2>5, <2>7, <3>1, <3>2, <3>3, <3>4, <3>5, <3>8, Same,
         UserEnqueues DEF Moving
  <2> QED
    BY <2>6, <2>7
<1> QED
  BY <1>3, <1>4 DEF WinCreate

LEMMA FreeStep ==
  ASSUME WinInv, NEW r \in Rank, WinFree(r)
  PROVE  WinInv'
<1> DEFINE c == Call(r)
           all == "name" \notin c.has
           freed == IF all THEN win_map[r] ELSE {c.name}
<1>1. InCall(r, "run") /\ c.op = "free" /\ UNCHANGED <<job, suspended>>
  BY DEF WinFree, Calls
<1>2. /\ pos[r] \in DOMAIN job[r] /\ pc[r] = "run" /\ Types /\ RankInv(r)
      /\ c.blocking \in BOOLEAN
  BY <1>1, CallFacts
<1>3. CASE Return(r) /\ UNCHANGED <<handle, win_map, failed, library>>
  BY <1>1, <1>3, Refused DEF library
<1>4. CASE /\ all \/ c.name \in win_map[r]
           /\ win_map' = [win_map EXCEPT ![r] = IF all THEN {} ELSE @ \ {c.name}]
           /\ storage' = [storage EXCEPT ![r] =
                 IF all THEN [tensors |-> {}, devices |-> @.devices]
                 ELSE [tensors |-> @.tensors \ {c.name}, devices |-> @.devices \ {c.name}]]
           /\ Block(r, freed)
           /\ UNCHANGED <<windows, with_p, bg>>
  <2>1. /\ Registered(r) /\ win_map[r] \in SUBSET Name /\ failed[r] \in SUBSET Name
        /\ storage[r] \in [tensors : SUBSET Name, devices : SUBSET Name]
    BY <1>2, Known
  <2>2. /\ DOMAIN storage = Rank /\ DOMAIN handle = Rank /\ DOMAIN failed = Rank
        /\ DOMAIN win_map = Rank
    BY <1>2 DEF Types
  <2>3. /\ storage'[r] = (IF all THEN [tensors |-> {}, devices |-> storage[r].devices]
                          ELSE [tensors |-> storage[r].tensors \ {c.name},
                                devices |-> storage[r].devices \ {c.name}])
        /\ win_map'[r] = IF all THEN {} ELSE win_map[r] \ {c.name}
    BY <1>4, <2>2
  <2>4. /\ storage' = [storage EXCEPT ![r] = storage'[r]]
        /\ storage'[r] \in [tensors : SUBSET Name, devices : SUBSET Name]
        /\ win_map' = [win_map EXCEPT ![r] = win_map'[r]] /\ win_map'[r] \in SUBSET Name
    <3>1. storage' = [storage EXCEPT ![r] = storage'[r]]
      BY <1>4, <2>3
    <3>2. storage'[r] \in [tensors : SUBSET Name, devices : SUBSET Name]
      BY <1>2, <2>1, <2>3
    <3>3. win_map' = [win_map EXCEPT ![r] = win_map'[r]]
      BY <1>4, <2>3
    <3>4. win_map'[r] \in SUBSET Name
      BY <2>1, <2>3
    <3> QED
      BY <3>1, <3>2, <3>3, <3>4
  <2>5. Enqueue(r)
    BY <1>4 DEF Block
  <2>6. CASE suspended[r]
    <3>1. Return(r) /\ failed' = [failed EXCEPT ![r] = @ \cup freed] /\ UNCHANGED handle
      BY <1>4, <2>6 DEF Block
    <3>2. failed'[r] = failed[r] \cup freed
      BY <2>2, <3>1
    <3>3. freed \subseteq Name
      BY <1>4, <2>1
    <3>4. Registered(r)'
      BY <1>1, <1>4, <2>1, <2>3, <3>2 DEF Registered, Except
    <3> HIDE DEF freed
    <3>5. failed' = [failed EXCEPT ![r] = failed'[r]] /\ failed'[r] \in SUBSET Name
      BY <2>1, <3>1, <3>2, <3>3
    <3> QED
      BY <1>1, <1>4, <2>4, <2>5, <2>6, <3>1, <3>4, <3>5, RefusedLate
  <2>7. CASE ~suspended[r]
    <3>1. /\ GoTo(r, "blocked") /\ handle' = [handle EXCEPT ![r] = last_handle'[r]]
          /\ UNCHANGED failed
      BY <1>4, <2>7 DEF Block
    <3>2. /\ pos' = pos /\ pos' = [pos EXCEPT ![r] = pos'[r]] /\ pos'[r] \in Nat \ {0}
          /\ pc' = [pc EXCEPT ![r] = pc'[r]] /\ pc'[r] = "blocked"
      BY <1>2, <3>1, Goes
    <3>3. /\ last_handle'[r] = last_handle[r] + 1
          /\ last_handle'[r] \in DOMAIN results'[r]
          /\ results'[r][last_handle'[r]] = "pending"
      BY <1>2, <2>5, Enqueued
    <3>4. handle'[r] = last_handle'[r]
      BY <2>2, <3>1
    <3>5. handle' = [handle EXCEPT ![r] = handle'[r]]
      BY <3>1, <3>4
    <3>6. Call(r)' = c
      BY <1>1, <3>2, SameCall
    <3>7. Registering(r)'
      BY <1>1, <1>4, <2>1, <2>3, <3>1, <3>3, <3>4, <3>6 DEF Registering, Registered, Except
    <3>8. RegistryInv(r)'
      BY <3>2, <3>7 DEF RegistryInv
    <3> QED
      BY <1>1, <1>2, <1>4, <2>4, <2>5, <2>7, <3>1, <3>2, <3>3, <3>4, <3>5, <3>8, UserEnqueues
         DEF Moving
  <2> QED
    BY <2>6, <2>7
<1> QED
  BY <1>3, <1>4 DEF WinFree

LEMMA PeersRange ==
  ASSUME NEW c, NEW r
  PROVE  /\ Peers(c, r) \subseteq Rank
         /\ in_neighbor_ranks(r) \subseteq Rank /\ out_neighbor_ranks(r) \subseteq Rank
<1>1. DOMAIN Topo = Rank
  BY TopoAssumption
<1>2. in_neighbor_ranks(r) \subseteq Rank /\ out_neighbor_ranks(r) \subseteq Rank
  BY <1>1 DEF in_neighbor_ranks, out_neighbor_ranks, Predecessors, Successors
<1> QED
  BY <1>2 DEF Peers

LEMMA CommunicateStep ==
  ASSUME WinInv, NEW r \in Rank, WinCommunicate(r)
  PROVE  WinInv'
<1> DEFINE c == Call(r)
           lost == c.op = "get" /\ c.name \notin storage[r].devices
           h == IF lost THEN 0 ELSE last_handle'[r]
<1>1. /\ InCall(r, "run") /\ c.op \in Moving
      /\ UNCHANGED <<job, win_map, storage, windows, with_p, bg, failed, suspended>>
  BY DEF WinCommunicate, Calls, Moving
<1>2. /\ pos[r] \in DOMAIN job[r] /\ pc[r] = "run" /\ Types /\ RankInv(r)
      /\ c.blocking \in BOOLEAN
  BY <1>1, CallFacts
<1>3. /\ Registered(r)' /\ win_map'[r] \in SUBSET Name /\ failed'[r] \in SUBSET Name
      /\ storage'[r] \in [tensors : SUBSET Name, devices : SUBSET Name]
  BY <1>1, <1>2, Known
<1>4. CASE Return(r) /\ UNCHANGED <<handle, results, last_handle, queue>>
  BY <1>1, <1>4, Refused
<1>5. ASSUME IF c.blocking THEN handle' = [handle EXCEPT ![r] = h] /\ GoTo(r, "wait")
             ELSE Return(r) /\ UNCHANGED handle
      PROVE  /\ pos' = [pos EXCEPT ![r] = pos'[r]] /\ pos'[r] \in Nat \ {0}
             /\ pc' = [pc EXCEPT ![r] = pc'[r]]
             /\ handle' = [handle EXCEPT ![r] = handle'[r]]
             /\ IF c.blocking THEN pc'[r] = "wait" /\ pos'[r] = pos[r] /\ handle'[r] = h
                ELSE pc'[r] = "run" /\ handle'[r] = handle[r]
  <2>1. handle = [q \in Rank |-> handle[q]]
    BY <1>2 DEF Types
  <2> HIDE DEF h
  <2>2. CASE c.blocking
    <3>1. handle' = [handle EXCEPT ![r] = h] /\ handle'[r] = h
      BY <1>5, <2>1, <2>2
    <3> QED
      BY <1>2, <1>5, <2>2, <3>1, Goes
  <2>3. CASE ~c.blocking
    BY <1>2, <1>5, <2>3, Returns, Same
  <2> QED
    BY <2>2, <2>3
<1>6. CASE /\ lost
           /\ last_handle' = [last_handle EXCEPT ![r] = @ + 1]
           /\ results' = [results EXCEPT ![r] = Pending(@, last_handle'[r])]
           /\ UNCHANGED queue
           /\ IF c.blocking THEN handle' = [handle EXCEPT ![r] = h] /\ GoTo(r, "wait")
              ELSE Return(r) /\ UNCHANGED handle
  <2>1. last_handle \in [Rank -> Nat] /\ DOMAIN results = Rank
    BY <1>2 DEF Types
  <2>2. /\ last_handle'[r] = last_handle[r] + 1 /\ last_handle[r] \in Nat
    BY <1>6, <2>1
  <2>3. /\ last_handle' = [last_handle EXCEPT ![r] = last_handle'[r]]
        /\ last_handle'[r] \in Nat /\ last_handle[r] <= last_handle'[r]
    <3>1. last_handle' = [last_handle EXCEPT ![r] = last_handle'[r]]
      BY <1>6, <2>2
    <3> QED
      BY <2>2, <3>1
  <2>4. results' = [results EXCEPT ![r] = results'[r]]
    <3> DEFINE known == Pending(results[r], last_handle'[r])
    <3>1. results' = [results EXCEPT ![r] = known]
      BY <1>6
    <3> HIDE DEF known
    <3>2. results'[r] = known
      BY <2>1, <3>1
    <3> QED
      BY <3>1, <3>2
  <2>5. \A i \in DOMAIN queue[r] : ~Blocking(queue[r][i])
    BY <1>2, NothingBlocking
  <2>6. with_p' \in [Rank -> BOOLEAN] /\ suspended' \in [Rank -> BOOLEAN]
    BY <1>1, <1>2 DEF Types
  <2> HIDE DEF h, lost
  <2> QED
    BY <1>1, <1>2, <1>3, <1>5, <1>6, <2>3, <2>4, <2>5, <2>6, Same, UserMoves
<1>7. CASE /\ ~lost
           /\ DOMAIN Weights(c, r) \subseteq Peers(c, r)
           /\ Enqueue(r) /\ ~suspended[r]
           /\ IF c.blocking THEN handle' = [handle EXCEPT ![r] = h] /\ GoTo(r, "wait")
              ELSE Return(r) /\ UNCHANGED handle
  <2>1. last_handle'[r] = last_handle[r] + 1 /\ h = last_handle'[r]
    BY <1>2, <1>7, Enqueued
  <2>2. RegistryInv(r)'
    BY <1>3, <1>5, <1>7 DEF RegistryInv
  <2>4. c.op \notin {"create", "free"}
    BY <1>1 DEF Moving
  <2>5. DOMAIN Weights(c, r) \subseteq Rank
    BY <1>7, PeersRange
  <2> HIDE DEF h
  <2> QED
    BY <1>1, <1>2, <1>3, <1>5, <1>7, <2>1, <2>2, <2>4, <2>5, Same, UserEnqueues
<1>8. CASE ~lost /\ suspended[r] /\ Enqueue(r) /\ Return(r) /\ UNCHANGED handle
  BY <1>1, <1>2, <1>3, <1>8, Same, RefusedLate
<1> QED
  BY <1>4, <1>6, <1>7, <1>8 DEF WinCommunicate

-----------------------------------------------------------------------------
(* The actions of the background thread *)

LEMMA HeadEntry ==
  ASSUME Types, NEW r \in Rank, queue[r] # <<>>
  PROVE  /\ 1 \in DOMAIN queue[r] /\ Operation(r) = queue[r][1] /\ Operation(r) \in Entry
<1>1. queue[r] \in Seq(Entry)
  BY DEF Types
<1>2. 1 \in DOMAIN queue[r] /\ Head(queue[r]) = queue[r][1]
  BY <1>1
<1> QED
  BY <1>1, <1>2 DEF Operation

LEMMA OrdersAreRanks ==
  ASSUME NEW r \in Rank, NEW c, DOMAIN Weights(c, r) \subseteq Rank, NEW q \in Orders(r, c)
  PROVE  q \in Seq(Rank)
<1> DEFINE to == DOMAIN Weights(c, r)
<1>1. Cardinality(to) \in Nat
  <2>0. IsFiniteSet(Rank)
    <3>1. PICK n \in Nat : Rank = 0 .. n
      BY TopoAssumption
    <3> QED
      BY <3>1, FS_Interval
  <2>1. to \in SUBSET Rank
    OBVIOUS
  <2> HIDE DEF to
  <2>2. IsFiniteSet(to)
    BY <2>0, <2>1, FS_Subset
  <2> QED
    BY <2>2, FS_CardinalityType
<1>2. q \in [1 .. Cardinality(to) -> to]
  BY DEF Orders
<1>3. q \in [1 .. Cardinality(to) -> Rank]
  BY <1>2
<1> QED
  BY <1>1, <1>3, SeqDef

\* A step to the next rank, or to another place for the same rank.
LEMMA NextPlace ==
  ASSUME Types, NEW r \in Rank, NEW ranks \in Seq(Rank), NextRank(r, ranks)
  PROVE  /\ bg' = [bg EXCEPT ![r] = bg'[r]]
         /\ bg'[r] \in [at : {"idle", "lock", "transfer", "version", "p", "callback"},
                        ranks : Seq(Rank)]
         /\ bg'[r].at \in {"lock", "callback"} /\ (bg'[r].at = "lock" => bg'[r].ranks # <<>>)
         /\ bg'[r].ranks = ranks
<1> DEFINE v == [at |-> IF ranks = <<>> THEN "callback" ELSE "lock", ranks |-> ranks]
<1>1. DOMAIN bg = Rank
  BY DEF Types
<1>2. bg' = [bg EXCEPT ![r] = v]
  BY DEF NextRank
<1>3. /\ v \in [at : {"idle", "lock", "transfer", "version", "p", "callback"}, ranks : Seq(Rank)]
      /\ v.at \in {"lock", "callback"} /\ (v.at = "lock" => v.ranks # <<>>)
      /\ v.ranks = ranks
  OBVIOUS
<1> HIDE DEF v
<1>4. bg'[r] = v
  BY <1>1, <1>2
<1> QED
  BY <1>2, <1>3, <1>4

LEMMA SameRank ==
  ASSUME Types, NEW r \in Rank, NEW where \in {"transfer", "version", "p"}, BgAt(r, where)
  PROVE  /\ bg' = [bg EXCEPT ![r] = bg'[r]]
         /\ bg'[r] \in [at : {"idle", "lock", "transfer", "version", "p", "callback"},
                        ranks : Seq(Rank)]
         /\ bg'[r].at = where /\ bg'[r].ranks = bg[r].ranks
<1>1. bg \in [Rank -> [at : {"idle", "lock", "transfer", "version", "p", "callback"},
                       ranks : Seq(Rank)]]
  BY DEF Types
<1>2. bg' = [bg EXCEPT ![r] = [bg[r] EXCEPT !.at = where]]
  BY DEF BgAt
<1>3. bg'[r] = [bg[r] EXCEPT !.at = where]
  BY <1>1, <1>2
<1>4. bg[r] \in [at : {"idle", "lock", "transfer", "version", "p", "callback"}, ranks : Seq(Rank)]
  BY <1>1
<1>5. /\ bg'[r] \in [at : {"idle", "lock", "transfer", "version", "p", "callback"},
                     ranks : Seq(Rank)]
      /\ bg'[r].at = where /\ bg'[r].ranks = bg[r].ranks
  BY <1>3, <1>4
<1> QED
  BY <1>2, <1>3, <1>5

LEMMA PlaceSteps ==
  ASSUME WinInv, NEW r \in Rank, LockTarget(r) \/ Transfer(r) \/ UpdateVersion(r)
  PROVE  WinInv'
<1>1. /\ UNCHANGED <<python, results, last_handle, storage, windows, with_p, queue>>
      /\ bg[r].at \in {"lock", "transfer", "version"}
      /\ \E where \in {"transfer", "version", "p"} : BgAt(r, where)
  BY DEF LockTarget, Transfer, UpdateVersion, Running
<1>2. Types /\ RunningInv(r)
  BY DEF WinInv, RankInv
<1>3. /\ bg' = [bg EXCEPT ![r] = bg'[r]]
      /\ bg'[r] \in [at : {"idle", "lock", "transfer", "version", "p", "callback"},
                     ranks : Seq(Rank)]
      /\ bg'[r].at # "idle" /\ bg'[r].ranks = bg[r].ranks
  BY <1>1, <1>2, SameRank
<1>4. RunningInv(r)'
  BY <1>1, <1>2, <1>3 DEF RunningInv, Operation
<1> QED
  BY <1>1, <1>3, <1>4, BackgroundMoves

LEMMA NextSteps ==
  ASSUME WinInv, NEW r \in Rank, StartOperation(r) \/ TransferP(r)
  PROVE  WinInv'
<1>1. UNCHANGED <<python, results, last_handle, storage, windows, with_p, queue>>
  BY DEF StartOperation, TransferP
<1>2. Types /\ RunningInv(r) /\ QueueInv(r)
  BY DEF WinInv, RankInv
<1>3. bg \in [Rank -> [at : {"idle", "lock", "transfer", "version", "p", "callback"},
                       ranks : Seq(Rank)]]
  BY <1>2 DEF Types
<1>4. CASE UNCHANGED bg
  <2>1. /\ bg' = [bg EXCEPT ![r] = bg'[r]]
        /\ bg'[r] \in [at : {"idle", "lock", "transfer", "version", "p", "callback"},
                       ranks : Seq(Rank)]
    BY <1>3, <1>4
  <2>2. RunningInv(r)'
    BY <1>1, <1>2, <1>4 DEF RunningInv, Operation
  <2> QED
    BY <1>1, <2>1, <2>2, BackgroundMoves
<1>5. ASSUME NEW ranks \in Seq(Rank), NextRank(r, ranks), queue[r] # <<>>,
             Operation(r).call.op \in Moving, Operation(r).call.name \in windows[r]
      PROVE  WinInv'
  <2>1. /\ bg' = [bg EXCEPT ![r] = bg'[r]]
        /\ bg'[r] \in [at : {"idle", "lock", "transfer", "version", "p", "callback"},
                       ranks : Seq(Rank)]
        /\ bg'[r].at \in {"lock", "callback"} /\ (bg'[r].at = "lock" => bg'[r].ranks # <<>>)
    BY <1>2, <1>5, NextPlace
  <2>2. RunningInv(r)'
    BY <1>1, <1>5, <2>1 DEF RunningInv, Operation
  <2> QED
    BY <1>1, <2>1, <2>2, BackgroundMoves
<1>6. CASE StartOperation(r) /\ ~UNCHANGED bg
  <2>1. PICK q \in Orders(r, Operation(r).call) : NextRank(r, q)
    BY <1>6 DEF StartOperation
  <2>2. /\ queue[r] # <<>> /\ Operation(r).call.op \in Moving
        /\ Operation(r).call.name \in windows[r]
    BY <1>6 DEF StartOperation, Moving
  <2>3. DOMAIN Weights(Operation(r).call, r) \subseteq Rank
    BY <1>2, <2>2, HeadEntry DEF QueueInv
  <2> QED
    BY <1>5, <2>1, <2>2, <2>3, OrdersAreRanks
<1>7. CASE TransferP(r)
  <2>1. /\ NextRank(r, Tail(bg[r].ranks)) /\ bg[r].at = "p"
    BY <1>7 DEF TransferP, Running
  <2>2. /\ queue[r] # <<>> /\ Operation(r).call.op \in Moving
        /\ Operation(r).call.name \in windows[r] /\ bg[r].ranks # <<>>
    BY <1>2, <2>1 DEF RunningInv
  <2>3. bg[r].ranks \in Seq(Rank)
    BY <1>3
  <2>4. Tail(bg[r].ranks) \in Seq(Rank)
    BY <2>2, <2>3
  <2> QED
    BY <1>5, <2>1, <2>2, <2>4
<1> QED
  BY <1>4, <1>6, <1>7

LEMMA TailEntries ==
  ASSUME NEW S, NEW q \in Seq(S), q # <<>>
  PROVE  /\ Tail(q) \in Seq(S)
         /\ \A i \in DOMAIN Tail(q) : /\ i + 1 \in DOMAIN q /\ Tail(q)[i] = q[i + 1]
                                      /\ i \in Nat \ {0}
<1>1. /\ Tail(q) \in Seq(S) /\ Len(q) \in Nat \ {0} /\ DOMAIN q = 1 .. Len(q)
      /\ DOMAIN Tail(q) = 1 .. Len(q) - 1
      /\ \A i \in 1 .. Len(q) - 1 : Tail(q)[i] = q[i + 1]
  OBVIOUS
<1>2. \A i \in 1 .. Len(q) - 1 : i + 1 \in 1 .. Len(q) /\ i \in Nat \ {0}
  BY <1>1
<1> QED
  BY <1>1, <1>2

\* The first operation leaves the queue: the user thread, if it waits for another one, still
\* does so.
LEMMA QueueShortened ==
  ASSUME Types, NEW r \in Rank, QueueInv(r), queue[r] # <<>>,
         UNCHANGED <<job, pos, pc, handle, last_handle>>,
         queue'[r] = Tail(queue[r]),
         NEW v, results'[r] = [results[r] EXCEPT ![Operation(r).handle] = v]
  PROVE  QueueInv(r)'
<1>1. queue[r] \in Seq(Entry) /\ 1 \in DOMAIN queue[r] /\ Operation(r) = queue[r][1]
  BY HeadEntry DEF Types
<1>2. \A i \in DOMAIN queue'[r] :
         i + 1 \in DOMAIN queue[r] /\ queue'[r][i] = queue[r][i + 1] /\ i \in Nat \ {0}
  BY <1>1, TailEntries
<1>3. Call(r)' = Call(r)
  BY SameCall
<1>4. SUFFICES ASSUME NEW i \in DOMAIN queue'[r]
               PROVE  LET e == queue'[r][i]
                      IN /\ e.call.op \in Moving \cup {"create", "free"}
                         /\ e.call.op \in Moving => DOMAIN Weights(e.call, r) \subseteq Rank
                         /\ e.handle <= last_handle'[r]
                         /\ \A k \in DOMAIN queue'[r] :
                               e.handle = queue'[r][k].handle => i = k
                         /\ Blocking(e) => WaitsFor(r, queue[r][i])'
                         /\ pc'[r] = "blocked" /\ e.handle = handle'[r] => Blocking(e)
  BY DEF QueueInv, Blocking
<1> DEFINE e == queue[r][i + 1]
<1>5. /\ i + 1 \in DOMAIN queue[r] /\ queue'[r][i] = e /\ i \in Nat \ {0}
  BY <1>2
<1>6. /\ e.call.op \in Moving \cup {"create", "free"}
      /\ e.call.op \in Moving => DOMAIN Weights(e.call, r) \subseteq Rank
      /\ e.handle <= last_handle[r]
      /\ Blocking(e) => WaitsFor(r, e)
      /\ pc[r] = "blocked" /\ e.handle = handle[r] => Blocking(e)
  BY <1>5 DEF QueueInv
<1>7. ASSUME NEW k \in DOMAIN queue'[r], e.handle = queue'[r][k].handle PROVE i = k
  <2>1. k + 1 \in DOMAIN queue[r] /\ queue'[r][k] = queue[r][k + 1] /\ k \in Nat \ {0}
    BY <1>2
  <2>2. i + 1 = k + 1
    BY <1>5, <1>7, <2>1 DEF QueueInv
  <2> QED
    BY <1>5, <2>1, <2>2
<1>8. e.handle # Operation(r).handle
  <2>1. i + 1 # 1
    BY <1>5
  <2> QED
    BY <1>1, <1>5, <2>1 DEF QueueInv
<1> HIDE DEF e
<1>9. Blocking(e) => WaitsFor(r, queue[r][i])'
  BY <1>3, <1>5, <1>6, <1>8 DEF WaitsFor
<1> QED
  BY <1>5, <1>6, <1>7, <1>9

LEMMA CallbackStep ==
  ASSUME WinInv, NEW r \in Rank, Callback(r)
  PROVE  WinInv'
<1> DEFINE h == Operation(r).handle
<1>1. /\ UNCHANGED <<python, last_handle, storage, windows, with_p>> /\ bg[r].at = "callback"
      /\ UNCHANGED <<job, pos, pc, handle, win_map, suspended, failed>>
  BY DEF Callback, Running, python
<1>2. Types /\ RankInv(r) /\ RunningInv(r) /\ QueueInv(r)
  BY DEF WinInv, RankInv
<1>3. queue[r] # <<>> /\ Operation(r).call.op \in Moving
  BY <1>1, <1>2 DEF RunningInv
<1>4. CASE UNCHANGED <<results, queue, bg>>
  <2>1. /\ bg' = [bg EXCEPT ![r] = bg'[r]]
        /\ bg'[r] \in [at : {"idle", "lock", "transfer", "version", "p", "callback"},
                       ranks : Seq(Rank)]
    <3>1. bg \in [Rank -> [at : {"idle", "lock", "transfer", "version", "p", "callback"},
                           ranks : Seq(Rank)]]
      BY <1>2 DEF Types
    <3> QED
      BY <1>4, <3>1
  <2>2. RunningInv(r)'
    BY <1>1, <1>2, <1>4 DEF RunningInv, Operation
  <2> QED
    BY <1>1, <1>4, <2>1, <2>2, BackgroundMoves
<1>5. CASE /\ results' = [results EXCEPT ![r][h] = "ok"]
           /\ queue' = [queue EXCEPT ![r] = Tail(@)]
           /\ bg' = [bg EXCEPT ![r] = NoOperation]
  <2>1. /\ queue \in [Rank -> Seq(Entry)] /\ DOMAIN bg = Rank
        /\ results = [q \in Rank |-> results[q]]
    BY <1>2 DEF Types
  <2> HIDE DEF h
  <2>2. queue'[r] = Tail(queue[r]) /\ \A q \in Rank : q # r => queue'[q] = queue[q]
    BY <1>5, <2>1
  <2>3. bg'[r] = NoOperation /\ \A q \in Rank : q # r => bg'[q] = bg[q]
    BY <1>5, <2>1
  <2>4. /\ results'[r] = [results[r] EXCEPT ![h] = "ok"]
        /\ \A q \in Rank : q # r => results'[q] = results[q]
    BY <1>5, <2>1
  <2>5. queue[r] \in Seq(Entry) /\ Tail(queue[r]) \in Seq(Entry)
    BY <1>3, <2>1, TailEntries
  <2>6. Types'
    <3>1. Entry' = Entry
      BY <1>1, SameCalls
    <3>2. (queue \in [Rank -> Seq(Entry)])'
      BY <1>5, <2>1, <2>5, <3>1
    <3>3. NoOperation \in [at : {"idle", "lock", "transfer", "version", "p", "callback"},
                           ranks : Seq(Rank)]
      BY DEF NoOperation
    <3>4. (bg \in [Rank -> [at : {"idle", "lock", "transfer", "version", "p", "callback"},
                            ranks : Seq(Rank)]])'
      BY <1>2, <1>5, <3>3 DEF Types
    <3>5. results' = [q \in Rank |-> results'[q]]
      BY <1>5, <2>1
    <3> QED
      BY <1>1, <1>2, <3>2, <3>4, <3>5 DEF Types
  <2>7. ASSUME NEW q \in Rank, q # r PROVE RankInv(q)'
    BY <1>1, <2>2, <2>3, <2>4, <2>7, OtherRank DEF WinInv
  <2>8. Call(r)' = Call(r) /\ UpdateArgs(r)' = UpdateArgs(r)
    BY <1>1, SameCall
  <2>9. CallInv(r)'
    BY <1>1, <1>2, <2>8 DEF RankInv, CallInv
  <2>10. QueueInv(r)'
    BY <1>1, <1>2, <1>3, <2>2, <2>4, QueueShortened DEF h
  <2>11. RunningInv(r)'
    BY <2>3 DEF RunningInv, NoOperation
  <2>12. RegistryInv(r)'
    <3>1. CASE pc[r] # "blocked"
      BY <1>1, <1>2, <3>1 DEF RankInv, RegistryInv, Registered, Except
    <3>2. CASE pc[r] = "blocked"
      <4>1. 1 \in DOMAIN queue[r] /\ Operation(r) = queue[r][1]
        BY <1>2, <1>3, HeadEntry
      <4>2. handle[r] # h
        BY <1>2, <1>3, <3>2, <4>1 DEF QueueInv, Blocking, WaitsFor, Moving, h
      <4>3. Registering(r)
        BY <1>2, <3>2 DEF RankInv, RegistryInv
      <4>4. /\ handle[r] \in DOMAIN results'[r]
            /\ results'[r][handle[r]] = results[r][handle[r]]
        BY <2>4, <4>2, <4>3 DEF Registering
      <4> QED
        BY <1>1, <2>8, <3>2, <4>3, <4>4 DEF RegistryInv, Registering, Except
    <3> QED
      BY <3>1, <3>2
  <2> QED
    BY <1>1, <1>2, <2>6, <2>7, <2>9, <2>10, <2>11, <2>12 DEF WinInv, RankInv
<1> QED
  BY <1>4, <1>5 DEF Callback

-----------------------------------------------------------------------------
(* The collective part of win_create and win_free *)

\* All ranks wait for it, in the same call, and know the same windows.
LEMMA AllWait ==
  ASSUME WinInv, NEW op \in {"create", "free"}, Everyone(op), NEW r \in Rank
  PROVE  /\ bg[r].at = "idle" /\ queue[r] # <<>> /\ pc[r] = "blocked" /\ 0 \in Rank
         /\ handle[r] = Operation(r).handle /\ handle[r] \in DOMAIN results[r]
         /\ results[r][handle[r]] = "pending"
         /\ Call(r).op = op /\ Registering(r) /\ windows[r] = windows[0]
         /\ Call(r).name = Operation(0).call.name /\ Call(r).has = Operation(0).call.has
         /\ op = "create" => Call(r).name \in Name
<1>1. /\ bg[r].at = "idle" /\ queue[r] # <<>> /\ Operation(r).call.op = op
      /\ Operation(r).call.name = Operation(0).call.name
      /\ Operation(r).call.has = Operation(0).call.has
  BY DEF Everyone, Operation
<1>2. Types /\ RankInv(r)
  BY DEF WinInv
<1>3. 1 \in DOMAIN queue[r] /\ Operation(r) = queue[r][1]
  BY <1>1, <1>2, HeadEntry
<1>4. Blocking(Operation(r))
  BY <1>1 DEF Blocking
<1>5. WaitsFor(r, Operation(r))
  BY <1>2, <1>3, <1>4 DEF RankInv, QueueInv
<1>6. /\ pc[r] = "blocked" /\ handle[r] = Operation(r).handle
      /\ handle[r] \in DOMAIN results[r] /\ results[r][handle[r]] = "pending"
      /\ Operation(r).call = Call(r)
  BY <1>1, <1>5 DEF WaitsFor
<1>7. Registering(r)
  BY <1>2, <1>6 DEF RankInv, RegistryInv
<1>8. 0 \in Rank
  BY TopoAssumption
<1>9. windows[r] = windows[0]
  BY <1>8 DEF WinInv
<1>10. pos[r] \in DOMAIN job[r] /\ job \in Jobs
  BY <1>2, <1>6 DEF RankInv, CallInv, Types
<1>11. op = "create" => Call(r).name \in Name
  BY <1>1, <1>6, <1>10, ScriptTypes DEF Call
<1> QED
  BY <1>1, <1>6, <1>7, <1>8, <1>9, <1>11

LEMMA CollectiveMoves ==
  ASSUME WinInv, NEW op \in {"create", "free"}, Everyone(op), NEW oks, Finish(oks),
         UNCHANGED <<python, last_handle, storage, with_p, bg>>,
         windows' \in [Rank -> SUBSET Name], \A r, q \in Rank : windows'[r] = windows'[q],
         \A r \in Rank : results'[r][handle[r]] = (IF r \in oks THEN "ok" ELSE "error")
                            => RegistryInv(r)'
  PROVE  WinInv'
<1>1. Types /\ UNCHANGED <<job, pos, pc, handle, win_map, suspended, failed>>
  BY DEF WinInv, python
<1>2. /\ results' = [r \in Rank |-> [results[r] EXCEPT ![Operation(r).handle] =
                                         IF r \in oks THEN "ok" ELSE "error"]]
      /\ queue' = [r \in Rank |-> Tail(queue[r])]
  BY DEF Finish, Operation
<1>3. ASSUME NEW r \in Rank
      PROVE  /\ results'[r] = [results[r] EXCEPT ![Operation(r).handle] =
                                  IF r \in oks THEN "ok" ELSE "error"]
             /\ queue'[r] = Tail(queue[r])
  BY <1>2
<1>4. Types'
  <2>1. Entry' = Entry
    BY <1>1, SameCalls
  <2>2. ASSUME NEW r \in Rank PROVE queue'[r] \in Seq(Entry)
    <3>1. queue[r] \in Seq(Entry) /\ queue[r] # <<>>
      BY <1>1, AllWait DEF Types
    <3>2. Tail(queue[r]) \in Seq(Entry)
      BY <3>1, TailEntries
    <3> QED
      BY <1>3, <3>2
  <2>3. (queue \in [Rank -> Seq(Entry)])'
    BY <1>2, <2>1, <2>2
  <2>4. results' = [r \in Rank |-> results'[r]]
    BY <1>2
  <2> QED
    BY <1>1, <2>3, <2>4 DEF Types
<1>5. ASSUME NEW r \in Rank PROVE RankInv(r)'
  <2>1. /\ bg[r].at = "idle" /\ queue[r] # <<>> /\ handle[r] = Operation(r).handle
        /\ handle[r] \in DOMAIN results[r]
    BY AllWait
  <2>2. RankInv(r)
    BY DEF WinInv
  <2>3. Call(r)' = Call(r) /\ UpdateArgs(r)' = UpdateArgs(r)
    BY <1>1, SameCall
  <2>4. CallInv(r)'
    BY <1>1, <2>2, <2>3 DEF RankInv, CallInv
  <2>5. QueueInv(r)'
    BY <1>1, <1>3, <2>1, <2>2, QueueShortened DEF RankInv
  <2>6. RunningInv(r)'
    BY <2>1 DEF RunningInv
  <2>7. RegistryInv(r)'
    <3>1. results'[r][handle[r]] = IF r \in oks THEN "ok" ELSE "error"
      BY <1>3, <2>1
    <3> QED
      BY <3>1
  <2> QED
    BY <2>4, <2>5, <2>6, <2>7 DEF RankInv
<1> QED
  BY <1>4, <1>5 DEF WinInv

LEMMA CreateWindowsStep ==
  ASSUME WinInv, CreateWindows
  PROVE  WinInv'
<1> DEFINE n == Operation(0).call.name
           new == {r \in Rank : SameShape /\ n \notin windows[r]}
<1>1. /\ Everyone("create") /\ Finish(new)
      /\ windows' = [r \in Rank |-> IF r \in new THEN windows[r] \cup {n} ELSE windows[r]]
      /\ UNCHANGED <<python, last_handle, storage, with_p, bg>>
  BY DEF CreateWindows, Operation
<1>2. UNCHANGED <<job, pos, pc, handle, win_map, failed>>
  BY <1>1 DEF python
<1>3. ASSUME NEW r \in Rank
      PROVE  /\ Registering(r) /\ Call(r).op = "create" /\ Call(r).name = n /\ n \in Name
             /\ pc[r] = "blocked" /\ results[r][handle[r]] = "pending"
             /\ handle[r] = Operation(r).handle /\ handle[r] \in DOMAIN results[r]
  BY <1>1, AllWait
<1>4. \A r, q \in Rank : r \in new <=> q \in new
  BY DEF WinInv
<1>5. windows \in [Rank -> SUBSET Name] /\ 0 \in Rank
  BY TopoAssumption DEF WinInv, Types
<1>6. n \in Name
  BY <1>3, <1>5
<1> HIDE DEF n, new
<1>7. windows' \in [Rank -> SUBSET Name]
  BY <1>1, <1>5, <1>6
<1>8. \A r, q \in Rank : windows'[r] = windows'[q]
  BY <1>1, <1>4 DEF WinInv
<1>9. ASSUME NEW r \in Rank, results'[r][handle[r]] = IF r \in new THEN "ok" ELSE "error"
      PROVE  RegistryInv(r)'
  <2>1. Call(r)' = Call(r)
    BY <1>2, SameCall
  <2>2. DOMAIN results'[r] = DOMAIN results[r]
    BY <1>1 DEF Finish
  <2>3. /\ windows'[r] = IF r \in new THEN windows[r] \cup {n} ELSE windows[r]
        /\ storage' = storage
    BY <1>1
  <2>4. /\ Registering(r) /\ Call(r).op = "create" /\ Call(r).name = n
        /\ pc[r] = "blocked" /\ results[r][handle[r]] = "pending"
    BY <1>3
  <2>5. Registering(r)'
    BY <1>2, <1>9, <2>1, <2>2, <2>3, <2>4 DEF Registering, Except
  <2> QED
    BY <1>2, <2>4, <2>5 DEF RegistryInv
<1> QED
  BY <1>1, <1>7, <1>8, <1>9, CollectiveMoves

LEMMA FreeWindowsStep ==
  ASSUME WinInv, FreeWindows
  PROVE  WinInv'
<1> DEFINE c == Operation(0).call
           gone == IF "name" \in c.has THEN {c.name} ELSE Name
           oks == {r \in Rank : "name" \notin c.has \/ c.name \in windows[r]}
<1>1. /\ Everyone("free") /\ Finish(oks)
      /\ windows' = [r \in Rank |-> windows[r] \ gone]
      /\ UNCHANGED <<python, last_handle, storage, with_p, bg>>
  BY DEF FreeWindows, Operation
<1>2. UNCHANGED <<job, pos, pc, handle, win_map, failed>>
  BY <1>1 DEF python
<1>3. ASSUME NEW r \in Rank
      PROVE  /\ Registering(r) /\ Call(r).op = "free" /\ Call(r).name = c.name
             /\ Call(r).has = c.has /\ pc[r] = "blocked" /\ results[r][handle[r]] = "pending"
             /\ handle[r] = Operation(r).handle /\ handle[r] \in DOMAIN results[r]
             /\ "name" \notin c.has \/ c.name \in windows[r]
  <2>1. /\ Registering(r) /\ Call(r).op = "free" /\ Call(r).name = c.name
        /\ Call(r).has = c.has /\ pc[r] = "blocked" /\ results[r][handle[r]] = "pending"
        /\ handle[r] = Operation(r).handle /\ handle[r] \in DOMAIN results[r]
    BY <1>1, AllWait
  <2> QED
    BY <2>1 DEF Registering
<1>4. oks = Rank
  BY <1>3
<1>5. windows \in [Rank -> SUBSET Name]
  BY DEF WinInv, Types
<1> HIDE DEF c, oks
<1>6. windows' \in [Rank -> SUBSET Name]
  BY <1>1, <1>5
<1>7. \A r, q \in Rank : windows'[r] = windows'[q]
  BY <1>1 DEF WinInv
<1>8. ASSUME NEW r \in Rank, results'[r][handle[r]] = IF r \in oks THEN "ok" ELSE "error"
      PROVE  RegistryInv(r)'
  <2>1. Call(r)' = Call(r)
    BY <1>2, SameCall
  <2>2. DOMAIN results'[r] = DOMAIN results[r]
    BY <1>1 DEF Finish
  <2>3. /\ Registering(r) /\ Call(r).op = "free" /\ pc[r] = "blocked"
        /\ results[r][handle[r]] = "pending"
        /\ Call(r).name = c.name /\ Call(r).has = c.has
    BY <1>3
  <2>4. windows'[r] = windows[r] \ gone /\ storage' = storage /\ windows[r] \subseteq Name
    BY <1>1, <1>5
  <2>5. results'[r][handle[r]] = "ok"
    BY <1>4, <1>8
  <2>6. Registering(r)'
    BY <1>2, <2>1, <2>2, <2>3, <2>4, <2>5 DEF Registering, Except
  <2> QED
    BY <1>2, <2>3, <2>6 DEF RegistryInv
<1> QED
  BY <1>1, <1>6, <1>7, <1>8, CollectiveMoves

-----------------------------------------------------------------------------
(* The registries *)

LEMMA WinInvInit == Init => WinInv
<1> SUFFICES ASSUME Init PROVE WinInv
  OBVIOUS
<1>1. Types
  <2>1. results = [r \in Rank |-> results[r]] /\ handle = [r \in Rank |-> handle[r]]
    BY DEF Init
  <2>2. bg \in [Rank -> [at : {"idle", "lock", "transfer", "version", "p", "callback"},
                         ranks : Seq(Rank)]]
    BY DEF Init, NoOperation
  <2>3. queue \in [Rank -> Seq(Entry)]
    BY DEF Init
  <2> QED
    BY <2>1, <2>2, <2>3 DEF Init, Types
<1>2. \A r, q \in Rank : windows[r] = windows[q]
  BY DEF Init
<1>3. ASSUME NEW r \in Rank PROVE RankInv(r)
  <2>1. /\ pc[r] = "run" /\ queue[r] = <<>> /\ bg[r].at = "idle"
        /\ win_map[r] = {} /\ windows[r] = {} /\ storage[r].tensors = {}
    BY DEF Init, NoOperation
  <2> QED
    BY <2>1 DEF RankInv, CallInv, QueueInv, RunningInv, RegistryInv, Registered, Except
<1> QED
  BY <1>1, <1>2, <1>3 DEF WinInv

LEMMA WinInvStep == WinInv /\ [Next]_vars => WinInv'
<1> SUFFICES ASSUME WinInv, [Next]_vars PROVE WinInv'
  OBVIOUS
<1>1. ASSUME NEW r \in Rank, UserThread(r) PROVE WinInv'
  BY <1>1, UpdateSteps, EnterStep, WaitSteps, CreateStep, FreeStep, CommunicateStep
     DEF UserThread
<1>2. ASSUME NEW r \in Rank, BackgroundThread(r) PROVE WinInv'
  BY <1>2, PlaceSteps, NextSteps, CallbackStep DEF BackgroundThread
<1>3. CASE UNCHANGED <<python, library>>
  <2>1. UNCHANGED <<job, pos, pc, handle, win_map, results, last_handle, storage, windows,
                    with_p, queue, bg, suspended, failed>>
    BY <1>3 DEF python, library
  <2>2. Types'
    <3>1. Entry' = Entry
      BY <2>1, SameCalls
    <3> QED
      BY <2>1, <3>1 DEF WinInv, Types
  <2>3. ASSUME NEW r \in Rank PROVE RankInv(r)'
    BY <2>1, OtherRank DEF WinInv
  <2> QED
    BY <2>1, <2>2, <2>3 DEF WinInv
<1>4. ASSUME NEW t \in Thread, Spin(t) PROVE WinInv'
  BY <1>3, <1>4 DEF Spin
<1>5. CASE UNCHANGED vars
  BY <1>3, <1>5 DEF vars
<1> QED
  BY <1>1, <1>2, <1>4, <1>5, CreateWindowsStep, FreeWindowsStep DEF Next

\* Python, the storage and the background thread know the same windows whenever a rank is
\* not inside win_create or win_free, although each learns of them in a step of its own and
\* the collective part waits for all ranks; a window whose win_create was refused or answered
\* with an error, or whose win_free was refused, is unknown to Python only, and until all
\* windows are freed.
THEOREM RegistriesCorrect == Spec => []RegistriesAgree
<1>1. WinInv => RegistriesAgree
  BY DEF WinInv, RankInv, RegistryInv, Registered, Except, RegistriesAgree
<1> QED
  BY <1>1, WinInvInit, WinInvStep, PTL DEF Spec

-----------------------------------------------------------------------------
(* Mutexes and versions: the invariants *)

\* A thread has a mutex, or is about to take it.
Claimed(t, s) ==
    \/ s \in held[t]
    \/ /\ spin[t].at \in {"fetch", "undo"}
       /\ \E i \in DOMAIN spin[t].todo : spin[t].todo[i] = s

\* win_update holds the mutexes of the buffers that it reads, if it was asked to and the rank
\* is not suspended.
UserHolds(r) ==
    pc[r] \in {"sync", "average", "reset"} =>
        /\ spin[User(r)].at # "drop"
        /\ pc[r] # "sync" => Outside(User(r))
        /\ Call(r).mutex /\ ~suspended[r] =>
              \A s \in DOMAIN UpdateArgs(r).weights :
                  Claimed(User(r), <<Call(r).name, r, s>>)

\* The background thread holds the mutex of the buffer that it writes, if it was asked to.
BackgroundHolds(r) ==
    bg[r].at \in {"transfer", "version", "p"} =>
        /\ spin[Background(r)].at # "drop"
        /\ bg[r].at # "transfer" => Outside(Background(r))
        /\ Operation(r).call.mutex => Claimed(Background(r), SlotAt(r))

HoldInv == \A r \in Rank : UserHolds(r) /\ BackgroundHolds(r)

MemoryTypes ==
    /\ version \in [Rank -> [Name -> [Rank -> Nat]]]
    /\ fresh \in [Rank -> [Name -> [Rank -> BOOLEAN]]]

\* The buffer of s at r is written, and its version is not counted yet; r has cleared its
\* versions, and has not read its buffers yet.
Counting(q, op, n, s) ==
    /\ bg[q].at = "version" /\ Operation(q).call.op = op /\ Operation(q).call.name = n
    /\ Head(bg[q].ranks) = s
PutPending(n, r, s) == Counting(s, "put", n, r)
GetPending(n, r, s) == Counting(r, "get", n, s)
Averaging(n, r) == pc[r] = "average" /\ Call(r).name = n

BufferInv(n, r, s) ==
    /\ version[r][n][s] > 0 \/ PutPending(n, r, s) \/ GetPending(n, r, s) => fresh[r][n][s]
    /\ fresh[r][n][s] => \/ version[r][n][s] > 0
                         \/ PutPending(n, r, s) \/ GetPending(n, r, s)
                         \/ Averaging(n, r)
    /\ Averaging(n, r) => version[r][n][s] = 0

FreshInv ==
    \A n \in Name : Versioned(n) =>
        \A r \in Rank : \A s \in in_neighbor_ranks(r) : BufferInv(n, r, s)

\* Only a call suspends a rank.
CalmInv == Undisturbed => \A r \in Rank : suspended[r] = FALSE

\* What follows from the calls alone does not suffice: that nobody counts a version or reads
\* a buffer between the two steps of another thread is the mutexes' doing.
VersionInv == WinInv /\ MutexInv /\ HoldInv /\ MemoryTypes /\ CalmInv /\ FreshInv

-----------------------------------------------------------------------------
(* Mutexes are held where they are asked for *)

LEMMA ThreadsDiffer ==
  ASSUME NEW r \in Rank
  PROVE  /\ User(r) \in Thread /\ Background(r) \in Thread
         /\ \A q \in Rank : User(q) # Background(r) /\ (q # r => User(q) # User(r))
         /\ \A q \in Rank : q # r => Background(q) # Background(r)
BY DEF User, Background, Thread

\* A thread that gives nothing back keeps its claims, whatever thread takes a step.
LEMMA SpinKeeps ==
  ASSUME MutexInv, NEW t \in Thread, NEW u \in Thread, spin[t].at # "drop",
         FetchAndAdd(u) \/ Undo(u) \/ Drop(u)
  PROVE  /\ spin'[t].at # "drop" /\ (Outside(t) => Outside(t)')
         /\ \A s : Claimed(t, s) => Claimed(t, s)'
<1>1. MutexType
  BY DEF MutexInv
<1>2. CASE u # t
  <2>1. spin'[t] = spin[t] /\ held'[t] = held[t]
    <3>1. CASE FetchAndAdd(u)
      BY <1>1, <1>2, <3>1 DEF FetchAndAdd, MutexType
    <3>2. CASE Undo(u)
      BY <1>1, <1>2, <3>2 DEF Undo, MutexType
    <3>3. CASE Drop(u)
      BY <1>1, <1>2, <3>3 DEF Drop, MutexType
    <3> QED
      BY <3>1, <3>2, <3>3
  <2> QED
    BY <2>1 DEF Outside, Claimed
<1>3. CASE u = t
  <2> DEFINE todo == spin[t].todo
             h == Head(todo)
             q == Tail(todo)
  <2>1. spin[t].at \in {"fetch", "undo"} /\ ~Drop(t)
    BY <1>3 DEF FetchAndAdd, Undo, Drop
  <2>2. todo \in Seq(Slot) /\ todo # <<>>
    BY <1>1, <2>1 DEF MutexType
  <2>3. /\ h = todo[1] /\ q \in Seq(Slot)
        /\ \A i \in DOMAIN todo : i = 1 \/ (i - 1 \in DOMAIN q /\ q[i - 1] = todo[i])
    BY <2>2
  <2> HIDE DEF h, q, todo
  <2>4. ASSUME Undo(t)
        PROVE  /\ spin'[t].at = "fetch" /\ spin'[t].todo = todo /\ held'[t] = held[t]
    BY <1>1, <2>4 DEF Undo, MutexType, todo
  <2>5. ASSUME FetchAndAdd(t)
        PROVE  \/ spin'[t] = At("fetch", q) /\ held'[t] = held[t] \cup {h}
               \/ spin'[t] = At("undo", todo) /\ held'[t] = held[t]
    BY <1>1, <2>5 DEF FetchAndAdd, MutexType, h, q, todo
  <2>6. CASE spin'[t] = At("fetch", q) /\ held'[t] = held[t] \cup {h}
    <3>1. /\ spin'[t].at # "drop" /\ spin'[t].todo = q
          /\ q # <<>> => spin'[t].at = "fetch"
      BY <2>6 DEF At
    <3>2. ASSUME NEW s, Claimed(t, s) PROVE Claimed(t, s)'
      <4>1. CASE s \in held[t]
        BY <2>6, <4>1 DEF Claimed
      <4>2. ASSUME NEW i \in DOMAIN todo, todo[i] = s PROVE Claimed(t, s)'
        <5>1. CASE i = 1
          BY <2>3, <2>6, <4>2, <5>1 DEF Claimed
        <5>2. CASE i - 1 \in DOMAIN q /\ q[i - 1] = s
          <6>1. q # <<>>
            BY <2>3, <5>2
          <6> QED
            BY <3>1, <5>2, <6>1 DEF Claimed
        <5> QED
          BY <2>3, <4>2, <5>1, <5>2
      <4> QED
        BY <3>2, <4>1, <4>2 DEF Claimed, todo
    <3> QED
      BY <2>1, <3>1, <3>2 DEF Outside
  <2>7. CASE /\ spin'[t].at \in {"fetch", "undo"} /\ spin'[t].todo = todo
             /\ held'[t] = held[t]
    BY <2>1, <2>7 DEF Outside, Claimed, todo
  <2>8. spin'[t] = At("undo", todo) => spin'[t].at = "undo" /\ spin'[t].todo = todo
    BY <2>2 DEF At
  <2> QED
    BY <1>3, <2>1, <2>4, <2>5, <2>6, <2>7, <2>8
<1> QED
  BY <1>2, <1>3

LEMMA KeepUser ==
  ASSUME NEW q \in Rank, UserHolds(q), job' = job, pos'[q] = pos[q], pc'[q] = pc[q],
         suspended'[q] = suspended[q],
         spin[User(q)].at # "drop" =>
            /\ spin'[User(q)].at # "drop" /\ (Outside(User(q)) => Outside(User(q))')
            /\ \A s : Claimed(User(q), s) => Claimed(User(q), s)'
  PROVE  UserHolds(q)'
<1>1. Call(q)' = Call(q) /\ UpdateArgs(q)' = UpdateArgs(q)
  BY SameCall
<1>2. User(q)' = User(q)
  BY DEF User
<1> QED
  BY <1>1, <1>2 DEF UserHolds

LEMMA KeepBackground ==
  ASSUME NEW q \in Rank, BackgroundHolds(q), bg'[q] = bg[q],
         bg[q].at # "idle" => Operation(q)' = Operation(q),
         spin[Background(q)].at # "drop" =>
            /\ spin'[Background(q)].at # "drop"
            /\ (Outside(Background(q)) => Outside(Background(q))')
            /\ \A s : Claimed(Background(q), s) => Claimed(Background(q), s)'
  PROVE  BackgroundHolds(q)'
<1>1. Background(q)' = Background(q)
  BY DEF Background
<1>2. bg[q].at # "idle" => SlotAt(q)' = SlotAt(q)
  BY DEF SlotAt
<1>3. bg[q].at # "idle" /\ Claimed(Background(q), SlotAt(q)) /\ spin[Background(q)].at # "drop"
         => Claimed(Background(q), SlotAt(q))'
  BY <1>1, <1>2 DEF Claimed
<1> QED
  BY <1>1, <1>2, <1>3 DEF BackgroundHolds

LEMMA SameClaims ==
  ASSUME NEW t \in Thread, spin'[t] = spin[t], held'[t] = held[t]
  PROVE  /\ spin[t].at # "drop" => spin'[t].at # "drop"
         /\ Outside(t) => Outside(t)'
         /\ \A s : Claimed(t, s) => Claimed(t, s)'
BY DEF Outside, Claimed

\* What the steps of a user thread leave alone.
LEMMA OperationKept ==
  ASSUME WinInv, NEW r \in Rank, queue' = queue \/ Enqueue(r)
  PROVE  \A q \in Rank : bg[q].at # "idle" => Operation(q)' = Operation(q)
<1>1. CASE queue' = queue
  BY <1>1 DEF Operation
<1>2. CASE Enqueue(r) /\ queue' # queue
  <2> DEFINE e == [call |-> Call(r), handle |-> last_handle[r] + 1, with_p |-> with_p[r]]
  <2>1. queue' = [queue EXCEPT ![r] = Append(queue[r], e)]
    BY <1>2 DEF Enqueue
  <2> HIDE DEF e
  <2>2. queue \in [Rank -> Seq(Entry)]
    BY DEF WinInv, Types
  <2>3. ASSUME NEW q \in Rank, bg[q].at # "idle" PROVE Head(queue'[q]) = Head(queue[q])
    <3>1. queue[q] # <<>> /\ queue[q] \in Seq(Entry)
      BY <2>2, <2>3 DEF WinInv, RankInv, RunningInv
    <3>2. CASE q # r
      BY <2>1, <2>2, <3>2
    <3>3. CASE q = r
      <4>1. queue'[q] = Append(queue[q], e)
        BY <2>1, <2>2, <3>3
      <4>2. queue[q] \in Seq(Entry \cup {e}) /\ e \in Entry \cup {e}
        BY <3>1
      <4> QED
        BY <3>1, <4>1, <4>2, AppendEntry
    <3> QED
      BY <3>2, <3>3
  <2> QED
    BY <2>3 DEF Operation
<1> QED
  BY <1>1, <1>2

LEMMA UserEffects ==
  ASSUME VersionInv, NEW r \in Rank, UserThread(r)
  PROVE  /\ job' = job /\ bg' = bg /\ held' = held
         /\ \A q \in Rank : q # r =>
               pos'[q] = pos[q] /\ pc'[q] = pc[q] /\ suspended'[q] = suspended[q]
         /\ suspended' = suspended \/ SetSuspended(r)
         /\ \A q \in Rank : bg[q].at # "idle" => Operation(q)' = Operation(q)
         /\ \A t \in Thread : t # User(r) => spin'[t] = spin[t]
         /\ pc'[r] \in {"sync", "average", "reset"} =>
               \/ WinUpdate(r) /\ pc'[r] = "sync"
               \/ WindowSync(r) /\ pc'[r] = "average"
               \/ Average(r) /\ pc'[r] = "reset"
         /\ version' = version \/ WindowSync(r)
         /\ fresh' = fresh \/ Average(r)
<1>1. WinInv /\ Types /\ MutexType
  BY DEF VersionInv, WinInv, MutexInv
<1>2. DOMAIN pos = Rank /\ DOMAIN pc = Rank /\ DOMAIN spin = Thread
  BY <1>1 DEF Types, MutexType
<1>3. job' = job /\ bg' = bg /\ held' = held /\ (queue' = queue \/ Enqueue(r))
  BY DEF UserThread, WinCreate, WinFree, WinCreated, WinCommunicate, WinWait, WinWaited,
         WinUpdate, WindowSync, Average, Reset, EnterMutex, ExitMutex, SetAssociatedP,
         SetSuspended, UpdateStep, Block, library, mutexVars, BeginAcquire, BeginRelease,
         ReleaseIf
<1>4. spin' = spin \/ \E v : spin' = [spin EXCEPT ![User(r)] = v]
  BY DEF UserThread, WinCreate, WinFree, WinCreated, WinCommunicate, WinWait, WinWaited,
         WinUpdate, WindowSync, Average, Reset, EnterMutex, ExitMutex, SetAssociatedP,
         SetSuspended, mutexVars, BeginAcquire, BeginRelease, ReleaseIf
<1>5. \A t \in Thread : t # User(r) => spin'[t] = spin[t]
  BY <1>2, <1>4
<1>6. \/ Return(r)
      \/ \E where : GoTo(r, where)
      \/ \E k : pos' = [pos EXCEPT ![r] = k] /\ pc' = pc
  BY DEF UserThread, WinCreate, WinFree, WinCreated, WinCommunicate, WinWait, WinWaited,
         WinUpdate, WindowSync, Average, Reset, EnterMutex, ExitMutex, SetAssociatedP,
         SetSuspended, Block
<1>7. \A q \in Rank : q # r => pos'[q] = pos[q] /\ pc'[q] = pc[q]
  BY <1>2, <1>6 DEF Return, GoTo
<1>10. suspended' = suspended \/ SetSuspended(r)
  BY DEF UserThread, WinCreate, WinFree, WinCreated, WinCommunicate, WinWait, WinWaited,
         WinUpdate, WindowSync, Average, Reset, EnterMutex, ExitMutex, SetAssociatedP,
         UpdateStep
<1>11. \A q \in Rank : q # r => suspended'[q] = suspended[q]
  BY <1>1, <1>10 DEF SetSuspended, Types
<1>8. pc'[r] \in {"sync", "average", "reset"} =>
               \/ WinUpdate(r) /\ pc'[r] = "sync"
               \/ WindowSync(r) /\ pc'[r] = "average"
               \/ Average(r) /\ pc'[r] = "reset"
  <2>1. CASE WinUpdate(r)
    BY <1>2, <2>1 DEF WinUpdate, Return, GoTo
  <2>2. CASE WindowSync(r)
    BY <1>2, <2>2 DEF WindowSync, GoTo
  <2>3. CASE Average(r)
    BY <1>2, <2>3 DEF Average, Return, GoTo
  <2>4. CASE \/ Reset(r) \/ ExitMutex(r) \/ SetAssociatedP(r) \/ SetSuspended(r)
             \/ WinWaited(r) \/ WinCreated(r)
    BY <1>2, <2>4 DEF Reset, ExitMutex, SetAssociatedP, SetSuspended, WinWaited, WinCreated,
                      Return
  <2>5. CASE WinCreate(r) \/ WinFree(r) \/ WinCommunicate(r) \/ WinWait(r)
    BY <1>2, <2>5 DEF WinCreate, WinFree, WinCommunicate, WinWait, Block, Return, GoTo
  <2>6. CASE EnterMutex(r)
    BY <1>2, <2>6 DEF EnterMutex, Calls, InCall, Return
  <2> QED
    BY <2>1, <2>2, <2>3, <2>4, <2>5, <2>6 DEF UserThread
<1>9. (version' = version \/ WindowSync(r)) /\ (fresh' = fresh \/ Average(r))
  BY DEF UserThread, WinCreate, WinFree, WinCreated, WinCommunicate, WinWait, WinWaited,
         WinUpdate, WindowSync, Average, Reset, EnterMutex, ExitMutex, SetAssociatedP,
         SetSuspended, memory
<1> QED
  BY <1>1, <1>3, <1>5, <1>7, <1>8, <1>9, <1>10, <1>11, OperationKept

LEMMA BackgroundEffects ==
  ASSUME VersionInv, NEW r \in Rank, BackgroundThread(r)
  PROVE  /\ job' = job /\ pos' = pos /\ pc' = pc /\ held' = held /\ suspended' = suspended
         /\ \A q \in Rank : q # r => bg'[q] = bg[q] /\ Operation(q)' = Operation(q)
         /\ \A t \in Thread : t # Background(r) => spin'[t] = spin[t]
         /\ bg'[r].at \in {"transfer", "version", "p"} =>
               \/ LockTarget(r) /\ bg'[r].at = "transfer"
               \/ Transfer(r) /\ bg'[r].at = "version"
               \/ UpdateVersion(r) /\ bg'[r].at = "p"
         /\ bg'[r].at \in {"transfer", "version", "p"} =>
               bg'[r].ranks = bg[r].ranks /\ Operation(r)' = Operation(r)
         /\ version' = version \/ UpdateVersion(r)
         /\ fresh' = fresh \/ Transfer(r)
<1>1. WinInv /\ Types /\ MutexType
  BY DEF VersionInv, WinInv, MutexInv
<1>2. DOMAIN bg = Rank /\ DOMAIN spin = Thread /\ DOMAIN queue = Rank
  BY <1>1 DEF Types, MutexType
<1>3. job' = job /\ pos' = pos /\ pc' = pc /\ held' = held /\ suspended' = suspended
  BY DEF BackgroundThread, StartOperation, LockTarget, Transfer, UpdateVersion, TransferP,
         Callback, python, mutexVars, BeginAcquire, BeginRelease, ReleaseIf
<1>4. spin' = spin \/ \E v : spin' = [spin EXCEPT ![Background(r)] = v]
  BY DEF BackgroundThread, StartOperation, LockTarget, Transfer, UpdateVersion, TransferP,
         Callback, mutexVars, BeginAcquire, BeginRelease, ReleaseIf
<1>5. \A t \in Thread : t # Background(r) => spin'[t] = spin[t]
  BY <1>2, <1>4
<1>6. bg' = bg \/ \E v : bg' = [bg EXCEPT ![r] = v]
  BY DEF BackgroundThread, StartOperation, LockTarget, Transfer, UpdateVersion, TransferP,
         Callback, NextRank, BgAt
<1>7. queue' = queue \/ \E v : queue' = [queue EXCEPT ![r] = v]
  BY DEF BackgroundThread, StartOperation, LockTarget, Transfer, UpdateVersion, TransferP,
         Callback
<1>8. \A q \in Rank : q # r => bg'[q] = bg[q] /\ Operation(q)' = Operation(q)
  BY <1>2, <1>6, <1>7 DEF Operation
<1>9. /\ version' = version \/ UpdateVersion(r)
      /\ fresh' = fresh \/ Transfer(r)
  BY DEF BackgroundThread, StartOperation, LockTarget, Transfer, UpdateVersion, TransferP,
         Callback, memory
<1>10. CASE LockTarget(r)
  BY <1>1, <1>3, <1>5, <1>8, <1>9, <1>10, SameRank DEF LockTarget, Operation
<1>11. CASE Transfer(r)
  BY <1>1, <1>3, <1>5, <1>8, <1>9, <1>11, SameRank DEF Transfer, Operation
<1>12. CASE UpdateVersion(r)
  BY <1>1, <1>3, <1>5, <1>8, <1>9, <1>12, SameRank DEF UpdateVersion, Operation
<1>13. CASE StartOperation(r) \/ TransferP(r) \/ Callback(r)
  <2>1. bg'[r].at \in {"lock", "callback", "idle"}
    <3>1. CASE bg' = bg /\ (StartOperation(r) \/ Callback(r))
      BY <3>1 DEF StartOperation, Callback, Running
    <3>2. ASSUME NEW ranks, NextRank(r, ranks) PROVE bg'[r].at \in {"lock", "callback", "idle"}
      BY <1>2, <3>2 DEF NextRank
    <3>3. CASE bg' = [bg EXCEPT ![r] = NoOperation]
      BY <1>2, <3>3 DEF NoOperation
    <3> QED
      BY <1>13, <3>1, <3>2, <3>3 DEF StartOperation, TransferP, Callback
  <2> QED
    BY <1>3, <1>5, <1>8, <1>9, <2>1
<1> QED
  BY <1>10, <1>11, <1>12, <1>13 DEF BackgroundThread

\* The call of win_update asks for the mutexes of all buffers that it reads.
LEMMA UpdateClaims ==
  ASSUME VersionInv, NEW r \in Rank, WinUpdate(r), pc'[r] = "sync"
  PROVE  UserHolds(r)'
<1>1. WinInv /\ Types /\ MutexType
  BY DEF VersionInv, WinInv, MutexInv
<1>2. InCall(r, "run") /\ UpdateStep(r)
  BY DEF WinUpdate, Updates
<1>3. pc[r] = "run" /\ Outside(User(r)) /\ DOMAIN pc = Rank
  BY <1>1, <1>2 DEF InCall, Types
<1>4. GoTo(r, "sync")
  BY <1>3 DEF WinUpdate, Return
<1>5. /\ IF Call(r).mutex /\ ~suspended[r]
         THEN \E q \in OwnSlots(r, Call(r).name, DOMAIN UpdateArgs(r).weights) :
                 BeginAcquire(User(r), q)
         ELSE UNCHANGED mutexVars
  BY <1>3 DEF WinUpdate, Return
<1>6. Call(r)' = Call(r) /\ UpdateArgs(r)' = UpdateArgs(r)
  BY <1>2, <1>4, SameCall DEF UpdateStep, GoTo
<1>7. User(r) \in Thread /\ User(r)' = User(r)
  BY ThreadsDiffer DEF User
<1>8. CASE ~(Call(r).mutex /\ ~suspended[r])
  BY <1>2, <1>3, <1>5, <1>6, <1>7, <1>8 DEF UpdateStep, UserHolds, mutexVars, Outside
<1>9. CASE Call(r).mutex /\ ~suspended[r]
  <2>1. PICK q \in OwnSlots(r, Call(r).name, DOMAIN UpdateArgs(r).weights) :
           spin' = [spin EXCEPT ![User(r)] = At("fetch", q)]
    BY <1>5, <1>9 DEF BeginAcquire
  <2>2. spin'[User(r)] = At("fetch", q)
    BY <1>1, <1>7, <2>1 DEF MutexType
  <2>3. ASSUME NEW s \in DOMAIN UpdateArgs(r).weights
        PROVE  \E i \in DOMAIN q : q[i] = <<Call(r).name, r, s>>
    BY DEF OwnSlots
  <2>4. ASSUME NEW s \in DOMAIN UpdateArgs(r).weights
        PROVE  Claimed(User(r), <<Call(r).name, r, s>>)'
    <3>1. PICK i \in DOMAIN q : q[i] = <<Call(r).name, r, s>>
      BY <2>3
    <3>2. q # <<>>
      BY <3>1
    <3>3. spin'[User(r)].at = "fetch" /\ spin'[User(r)].todo = q
      BY <2>2, <3>2 DEF At
    <3> QED
      BY <1>6, <1>7, <3>1, <3>3 DEF Claimed
  <2>5. spin'[User(r)].at # "drop"
    BY <2>2 DEF At
  <2> QED
    BY <1>6, <1>7, <2>4, <2>5 DEF UserHolds
<1> QED
  BY <1>8, <1>9

\* Outside the mutex functions, what a thread claims it has.
LEMMA UserHoldsStep ==
  ASSUME VersionInv, NEW r \in Rank, UserThread(r)
  PROVE  HoldInv'
<1>1. /\ job' = job /\ bg' = bg /\ held' = held
      /\ \A q \in Rank : q # r =>
            pos'[q] = pos[q] /\ pc'[q] = pc[q] /\ suspended'[q] = suspended[q]
      /\ \A q \in Rank : bg[q].at # "idle" => Operation(q)' = Operation(q)
      /\ \A t \in Thread : t # User(r) => spin'[t] = spin[t]
  BY UserEffects
<1>2. pc'[r] \in {"sync", "average", "reset"} =>
         \/ WinUpdate(r) /\ pc'[r] = "sync"
         \/ WindowSync(r) /\ pc'[r] = "average"
         \/ Average(r) /\ pc'[r] = "reset"
  BY UserEffects
<1>3. HoldInv /\ WinInv
  BY DEF VersionInv
<1>4. ASSUME NEW q \in Rank PROVE BackgroundHolds(q)'
  <2>1. Background(q) \in Thread /\ Background(q) # User(r)
    BY ThreadsDiffer
  <2>2. spin'[Background(q)] = spin[Background(q)] /\ held'[Background(q)] = held[Background(q)]
    BY <1>1, <2>1
  <2>3. bg'[q] = bg[q] /\ BackgroundHolds(q)
    BY <1>1, <1>3 DEF HoldInv
  <2>4. bg[q].at # "idle" => Operation(q)' = Operation(q)
    BY <1>1
  <2> QED
    BY <2>1, <2>2, <2>3, <2>4, SameClaims, KeepBackground
<1>5. ASSUME NEW q \in Rank, q # r PROVE UserHolds(q)'
  <2>1. User(q) \in Thread /\ User(q) # User(r)
    BY <1>5, ThreadsDiffer
  <2>2. spin'[User(q)] = spin[User(q)] /\ held'[User(q)] = held[User(q)]
    BY <1>1, <2>1
  <2>3. /\ pos'[q] = pos[q] /\ pc'[q] = pc[q] /\ suspended'[q] = suspended[q]
        /\ UserHolds(q)
    BY <1>1, <1>3, <1>5 DEF HoldInv
  <2> QED
    BY <1>1, <2>1, <2>2, <2>3, SameClaims, KeepUser
<1>6. UserHolds(r)'
  <2>1. CASE pc'[r] \notin {"sync", "average", "reset"}
    BY <2>1 DEF UserHolds
  <2>2. CASE WinUpdate(r) /\ pc'[r] = "sync"
    BY <2>2, UpdateClaims
  <2>3. CASE (WindowSync(r) \/ Average(r)) /\ pc'[r] # "run"
    <3>0. pc'[r] = "run" \/ pos' = pos
      BY <1>3, <2>3 DEF WindowSync, Average, Return, GoTo, WinInv, Types
    <3>1. /\ pc[r] \in {"sync", "average"} /\ Outside(User(r)) /\ pos' = pos
          /\ UNCHANGED mutexVars /\ suspended' = suspended
      BY <2>3, <3>0 DEF WindowSync, Average, Updates, InCall, UpdateStep
    <3>2. Call(r)' = Call(r) /\ UpdateArgs(r)' = UpdateArgs(r)
      BY <1>1, <3>1, SameCall
    <3>3. UserHolds(r) /\ User(r)' = User(r) /\ spin' = spin /\ held' = held
      BY <1>3, <3>1 DEF HoldInv, User, mutexVars
    <3> QED
      BY <3>1, <3>2, <3>3 DEF UserHolds, Outside, Claimed
  <2> QED
    BY <1>2, <2>1, <2>2, <2>3
<1> QED
  BY <1>4, <1>5, <1>6 DEF HoldInv

LEMMA BackgroundHoldsStep ==
  ASSUME VersionInv, NEW r \in Rank, BackgroundThread(r)
  PROVE  HoldInv'
<1>1. /\ job' = job /\ pos' = pos /\ pc' = pc /\ held' = held /\ suspended' = suspended
      /\ \A q \in Rank : q # r => bg'[q] = bg[q] /\ Operation(q)' = Operation(q)
      /\ \A t \in Thread : t # Background(r) => spin'[t] = spin[t]
  BY BackgroundEffects
<1>2. /\ bg'[r].at \in {"transfer", "version", "p"} =>
            \/ LockTarget(r) /\ bg'[r].at = "transfer"
            \/ Transfer(r) /\ bg'[r].at = "version"
            \/ UpdateVersion(r) /\ bg'[r].at = "p"
      /\ bg'[r].at \in {"transfer", "version", "p"} =>
            bg'[r].ranks = bg[r].ranks /\ Operation(r)' = Operation(r)
  BY BackgroundEffects
<1>3. HoldInv /\ MutexType
  BY DEF VersionInv, MutexInv
<1>4. ASSUME NEW q \in Rank PROVE UserHolds(q)'
  <2>1. User(q) \in Thread /\ User(q) # Background(r)
    BY ThreadsDiffer
  <2>2. spin'[User(q)] = spin[User(q)] /\ held'[User(q)] = held[User(q)]
    BY <1>1, <2>1
  <2>3. pos'[q] = pos[q] /\ pc'[q] = pc[q] /\ UserHolds(q)
    BY <1>1, <1>3 DEF HoldInv
  <2> QED
    BY <1>1, <2>1, <2>2, <2>3, SameClaims, KeepUser
<1>5. ASSUME NEW q \in Rank, q # r PROVE BackgroundHolds(q)'
  <2>1. Background(q) \in Thread /\ Background(q) # Background(r)
    BY <1>5, ThreadsDiffer
  <2>2. spin'[Background(q)] = spin[Background(q)] /\ held'[Background(q)] = held[Background(q)]
    BY <1>1, <2>1
  <2>3. bg'[q] = bg[q] /\ BackgroundHolds(q) /\ Operation(q)' = Operation(q)
    BY <1>1, <1>3, <1>5 DEF HoldInv
  <2> QED
    BY <2>1, <2>2, <2>3, SameClaims, KeepBackground
<1>6. BackgroundHolds(r)'
  <2>1. CASE bg'[r].at \notin {"transfer", "version", "p"}
    BY <2>1 DEF BackgroundHolds
  <2>2. Background(r) \in Thread /\ Background(r)' = Background(r)
    BY ThreadsDiffer DEF Background
  <2>3. bg'[r].at \in {"transfer", "version", "p"} => SlotAt(r)' = SlotAt(r)
    BY <1>2 DEF SlotAt
  <2>4. CASE LockTarget(r) /\ bg'[r].at = "transfer"
    <3>1. Outside(Background(r))
      BY <2>4 DEF LockTarget, Running
    <3>2. CASE Operation(r).call.mutex
      <4>1. spin' = [spin EXCEPT ![Background(r)] = At("fetch", <<SlotAt(r)>>)]
        BY <2>4, <3>2 DEF LockTarget, BeginAcquire
      <4>2. spin'[Background(r)] = At("fetch", <<SlotAt(r)>>)
        BY <1>3, <2>2, <4>1 DEF MutexType
      <4>3. spin'[Background(r)].at = "fetch" /\ spin'[Background(r)].todo = <<SlotAt(r)>>
        BY <4>2 DEF At
      <4>4. Claimed(Background(r), SlotAt(r))'
        <5>1. 1 \in DOMAIN spin'[Background(r)].todo
              /\ spin'[Background(r)].todo[1] = SlotAt(r)
          BY <4>3
        <5> QED
          BY <2>2, <2>3, <2>4, <4>3, <5>1 DEF Claimed
      <4> QED
        BY <2>2, <2>4, <4>3, <4>4 DEF BackgroundHolds
    <3>3. CASE ~Operation(r).call.mutex
      <4>1. spin' = spin
        BY <2>4, <3>3 DEF LockTarget, mutexVars
      <4> QED
        BY <1>2, <2>2, <2>4, <3>1, <3>3, <4>1 DEF BackgroundHolds, Outside
    <3> QED
      BY <3>2, <3>3
  <2>5. CASE \/ Transfer(r) /\ bg'[r].at = "version"
             \/ UpdateVersion(r) /\ bg'[r].at = "p"
    <3>1. bg[r].at \in {"transfer", "version"} /\ Outside(Background(r)) /\ UNCHANGED mutexVars
      BY <2>5 DEF Transfer, UpdateVersion, Running
    <3>2. BackgroundHolds(r) /\ spin' = spin /\ held' = held
      BY <1>3, <3>1 DEF HoldInv, mutexVars
    <3>3. Operation(r).call.mutex => SlotAt(r) \in held[Background(r)]
      BY <3>1, <3>2 DEF BackgroundHolds, Claimed, Outside
    <3>4. Operation(r)' = Operation(r) /\ SlotAt(r)' = SlotAt(r)
      BY <1>2, <2>3, <2>5
    <3>5. Operation(r).call.mutex => Claimed(Background(r), SlotAt(r))'
      BY <2>2, <3>2, <3>3, <3>4 DEF Claimed
    <3> QED
      BY <2>2, <3>1, <3>2, <3>4, <3>5 DEF BackgroundHolds, Outside
  <2> QED
    BY <1>2, <2>1, <2>4, <2>5
<1> QED
  BY <1>4, <1>5, <1>6 DEF HoldInv

LEMMA HoldStep ==
  ASSUME VersionInv, [Next]_vars
  PROVE  HoldInv'
<1>1. HoldInv /\ MutexInv
  BY DEF VersionInv
<1>2. ASSUME NEW u \in Thread, Spin(u) PROVE HoldInv'
  <2>1. /\ job' = job /\ pos' = pos /\ pc' = pc /\ suspended' = suspended
        /\ bg' = bg /\ queue' = queue
        /\ FetchAndAdd(u) \/ Undo(u) \/ Drop(u)
    BY <1>2 DEF Spin, python, library
  <2>2. ASSUME NEW q \in Rank PROVE UserHolds(q)'
    <3>1. User(q) \in Thread /\ UserHolds(q)
      BY <1>1, ThreadsDiffer DEF HoldInv
    <3> QED
      BY <1>1, <2>1, <3>1, SpinKeeps, KeepUser
  <2>3. ASSUME NEW q \in Rank PROVE BackgroundHolds(q)'
    <3>1. Background(q) \in Thread /\ BackgroundHolds(q) /\ Operation(q)' = Operation(q)
      BY <1>1, <2>1, ThreadsDiffer DEF HoldInv, Operation
    <3> QED
      BY <1>1, <2>1, <3>1, SpinKeeps, KeepBackground
  <2> QED
    BY <2>2, <2>3 DEF HoldInv
<1>3. CASE /\ UNCHANGED <<job, pos, pc, suspended, bg, spin, held>>
           /\ \A q \in Rank : bg[q].at # "idle" => Operation(q)' = Operation(q)
  <2>1. ASSUME NEW q \in Rank PROVE UserHolds(q)'
    <3>1. User(q) \in Thread /\ UserHolds(q)
      BY <1>1, ThreadsDiffer DEF HoldInv
    <3> QED
      BY <1>3, <3>1, SameClaims, KeepUser
  <2>2. ASSUME NEW q \in Rank PROVE BackgroundHolds(q)'
    <3>1. Background(q) \in Thread /\ BackgroundHolds(q)
      BY <1>1, ThreadsDiffer DEF HoldInv
    <3>2. bg[q].at # "idle" => Operation(q)' = Operation(q)
      BY <1>3
    <3> QED
      BY <1>3, <3>1, <3>2, SameClaims, KeepBackground
  <2> QED
    BY <2>1, <2>2 DEF HoldInv
<1>4. CASE CreateWindows \/ FreeWindows
  <2>1. UNCHANGED <<job, pos, pc, suspended, bg, spin, held>>
    BY <1>4 DEF CreateWindows, FreeWindows, python, mutexVars
  <2>2. \A q \in Rank : bg[q].at = "idle"
    BY <1>4 DEF CreateWindows, FreeWindows, Everyone
  <2> QED
    BY <1>3, <2>1, <2>2
<1>5. CASE UNCHANGED vars
  <2>1. UNCHANGED <<job, pos, pc, suspended, bg, spin, held, queue>>
    BY <1>5 DEF vars, python, library, mutexVars
  <2> QED
    BY <1>3, <2>1 DEF Operation
<1> QED
  BY <1>2, <1>4, <1>5, UserHoldsStep, BackgroundHoldsStep DEF Next

-----------------------------------------------------------------------------
(* Versions and buffers *)

LEMMA SameVersioned ==
  ASSUME job' = job, NEW n
  PROVE  Versioned(n)' <=> Versioned(n)
BY SameCalls DEF Versioned, OnWindow, Undisturbed

LEMMA BufferFrame ==
  ASSUME NEW n, NEW r, NEW s, BufferInv(n, r, s),
         version'[r][n][s] = version[r][n][s], fresh'[r][n][s] = fresh[r][n][s],
         PutPending(n, r, s)' <=> PutPending(n, r, s),
         GetPending(n, r, s)' <=> GetPending(n, r, s),
         Averaging(n, r)' <=> Averaging(n, r)
  PROVE  BufferInv(n, r, s)'
BY DEF BufferInv

\* What an operation in progress looks like.
LEMMA Progress ==
  ASSUME WinInv, NEW q \in Rank, bg[q].at \in {"transfer", "version"}
  PROVE  /\ Operation(q).call.name \in Name /\ Head(bg[q].ranks) \in Rank
         /\ Operation(q).call \in AllCalls /\ Operation(q).call.op \in Moving
         /\ Operation(q).call.blocking => pc[q] = "wait"
<1>1. Types /\ RankInv(q)
  BY DEF WinInv
<1>2. /\ queue[q] # <<>> /\ Operation(q).call.op \in Moving /\ bg[q].ranks # <<>>
      /\ Operation(q).call.name \in windows[q]
  BY <1>1 DEF RankInv, RunningInv
<1>3. windows[q] \subseteq Name
  BY <1>1 DEF Types
<1>4. bg[q].ranks \in Seq(Rank)
  BY <1>1 DEF Types
<1>5. Head(bg[q].ranks) \in Rank
  BY <1>2, <1>4
<1>6. 1 \in DOMAIN queue[q] /\ Operation(q) = queue[q][1] /\ Operation(q) \in Entry
  BY <1>1, <1>2, HeadEntry
<1>7. Operation(q).call \in AllCalls
  BY <1>6 DEF Entry
<1>8. Operation(q).call.blocking => pc[q] = "wait"
  BY <1>1, <1>2, <1>6 DEF RankInv, QueueInv, Blocking, WaitsFor, Moving
<1> QED
  BY <1>2, <1>3, <1>5, <1>7, <1>8

\* An update of a versioned window takes all neighbors.
LEMMA AllNeighbors ==
  ASSUME NEW r \in Rank, UpdateArgs(r).ok,
         \/ Call(r).op = "collect"
         \/ Call(r).op = "update" /\ "weights" \notin Call(r).has
  PROVE  DOMAIN UpdateArgs(r).weights = in_neighbor_ranks(r)
<1> DEFINE given == {"self_weight", "weights"} \cap Call(r).has
           in == in_neighbor_ranks(r)
<1>1. CASE Call(r).op = "collect"
  BY <1>1 DEF UpdateArgs
<1>2. CASE Call(r).op # "collect" /\ given = {}
  <2>1. CASE TopoWeighted
    BY <1>2, <2>1 DEF UpdateArgs, GetRecvWeights, in_neighbor_ranks
  <2>2. CASE ~TopoWeighted
    BY <1>2, <2>2 DEF UpdateArgs
  <2> QED
    BY <2>1, <2>2
<1>3. CASE Call(r).op # "collect" /\ given # {}
  <2>1. given = {"self_weight"}
    BY <1>3
  <2>2. Cardinality(given) = 1
    BY <2>1, FS_Singleton
  <2>3. Cardinality(given) = 2
    BY <1>3 DEF UpdateArgs
  <2> QED
    BY <2>2, <2>3
<1> QED
  BY <1>1, <1>2, <1>3

\* While a rank reads its buffers nobody is between writing one and counting its version:
\* not another rank, because of the mutex, nor the rank itself, which waits for its gets.
LEMMA Excluded ==
  ASSUME VersionInv, NEW n \in Name, Versioned(n), NEW r \in Rank,
         NEW s \in in_neighbor_ranks(r), Averaging(n, r)
  PROVE  /\ <<n, r, s>> \in held[User(r)] /\ s \in DOMAIN UpdateArgs(r).weights
         /\ ~PutPending(n, r, s) /\ ~GetPending(n, r, s)
<1>1. WinInv /\ Types /\ RankInv(r) /\ MutexInv /\ HoldInv /\ s \in Rank
  BY PeersRange DEF VersionInv, WinInv
<1>2. /\ pc[r] = "average" /\ Call(r).name = n /\ Call(r).op \in {"update", "collect"}
      /\ UpdateArgs(r).ok /\ pos[r] \in DOMAIN job[r]
  BY <1>1 DEF Averaging, RankInv, CallInv
<1>0. ~suspended[r]
  BY DEF VersionInv, CalmInv, Versioned
<1>3. Call(r) \in OnWindow(n)
  BY <1>1, <1>2, AtCall DEF OnWindow
<1>4. /\ Call(r).mutex
      /\ Call(r).op = "collect" \/ (Call(r).op = "update" /\ "weights" \notin Call(r).has)
  BY <1>2, <1>3 DEF Versioned
<1>5. s \in DOMAIN UpdateArgs(r).weights
  BY <1>2, <1>4, AllNeighbors
<1>6. UserHolds(r)
  BY <1>1 DEF HoldInv
<1>7. <<n, r, s>> \in held[User(r)]
  BY <1>0, <1>2, <1>4, <1>5, <1>6 DEF UserHolds, Claimed, Outside
<1>8. ASSUME PutPending(n, r, s) PROVE FALSE
  <2>1. /\ bg[s].at = "version" /\ Operation(s).call.op = "put"
        /\ Operation(s).call.name = n /\ Head(bg[s].ranks) = r
    BY <1>8 DEF PutPending, Counting
  <2>2. Operation(s).call \in AllCalls
    BY <1>1, <2>1, Progress
  <2>3. Operation(s).call \in OnWindow(n)
    BY <2>1, <2>2 DEF OnWindow
  <2>4. Operation(s).call.mutex
    BY <2>1, <2>3 DEF Versioned
  <2>5. BackgroundHolds(s)
    BY <1>1 DEF HoldInv
  <2>6. SlotAt(s) = <<n, r, s>>
    BY <2>1 DEF SlotAt
  <2>7. <<n, r, s>> \in held[Background(s)]
    BY <2>1, <2>4, <2>5, <2>6 DEF BackgroundHolds, Claimed, Outside
  <2>8. User(r) \in Thread /\ Background(s) \in Thread /\ User(r) # Background(s)
    BY <1>1, ThreadsDiffer
  <2> QED
    BY <1>1, <1>7, <2>7, <2>8 DEF MutexInv, MutualExclusion
<1>9. ASSUME GetPending(n, r, s) PROVE FALSE
  <2>1. /\ bg[r].at = "version" /\ Operation(r).call.op = "get"
        /\ Operation(r).call.name = n
    BY <1>9 DEF GetPending, Counting
  <2>2. /\ Operation(r).call \in AllCalls
        /\ Operation(r).call.blocking => pc[r] = "wait"
    BY <1>1, <2>1, Progress
  <2>3. Operation(r).call \in OnWindow(n)
    BY <2>1, <2>2 DEF OnWindow
  <2>4. Operation(r).call.blocking
    BY <2>1, <2>3 DEF Versioned
  <2> QED
    BY <1>2, <2>2, <2>4
<1> QED
  BY <1>5, <1>7, <1>8, <1>9

\* What the two steps of a transfer do to buffers and versions.
LEMMA TransferEffect ==
  ASSUME VersionInv, NEW q \in Rank, Transfer(q)
  PROVE  LET c == Operation(q).call
             to == Head(bg[q].ranks)
         IN /\ version' = version /\ bg[q].at = "transfer"
            /\ fresh' \in [Rank -> [Name -> [Rank -> BOOLEAN]]]
            /\ c.name \in Name /\ to \in Rank
            /\ \A r \in Rank : \A n \in Name : \A s \in Rank :
                  fresh'[r][n][s] =
                     IF \/ c.op = "put" /\ r = to /\ n = c.name /\ s = q
                        \/ c.op = "get" /\ r = q /\ n = c.name /\ s = to
                     THEN TRUE
                     ELSE fresh[r][n][s]
<1> DEFINE c == Operation(q).call
           to == Head(bg[q].ranks)
           one == TRUE
           two == TRUE
<1>1. /\ c.op = "put" => fresh' = [fresh EXCEPT ![to][c.name][q] = one]
      /\ c.op = "accumulate" => fresh' = fresh
      /\ c.op = "get" => fresh' = [fresh EXCEPT ![q][c.name][to] = two]
      /\ version' = version /\ bg[q].at = "transfer"
  BY DEF Transfer, Running
<1>2. c.name \in Name /\ to \in Rank /\ c.op \in Moving
  BY <1>1, Progress DEF VersionInv
<1>3. fresh \in [Rank -> [Name -> [Rank -> BOOLEAN]]]
  BY DEF VersionInv, MemoryTypes
<1> HIDE DEF c, to
<1>4. one \in BOOLEAN /\ two \in BOOLEAN
  BY <1>2, <1>3
<1>5. CASE c.op = "put"
  <2> HIDE DEF one
  <2> DEFINE row == [fresh[to][c.name] EXCEPT ![q] = one]
             rows == [fresh[to] EXCEPT ![c.name] = row]
  <2>1. fresh' = [fresh EXCEPT ![to] = rows]
    BY <1>1, <1>5
  <2>2. row \in [Rank -> BOOLEAN]
    BY <1>2, <1>3, <1>4
  <2>3. \A s \in Rank : row[s] = IF s = q THEN one ELSE fresh[to][c.name][s]
    BY <1>2, <1>3
  <2> HIDE DEF row
  <2>4. rows \in [Name -> [Rank -> BOOLEAN]]
    BY <1>2, <1>3, <2>2
  <2>5. \A n \in Name : rows[n] = IF n = c.name THEN row ELSE fresh[to][n]
    BY <1>2, <1>3
  <2> HIDE DEF rows
  <2>6. fresh' \in [Rank -> [Name -> [Rank -> BOOLEAN]]]
    BY <1>2, <1>3, <2>1, <2>4
  <2>7. \A r \in Rank : fresh'[r] = IF r = to THEN rows ELSE fresh[r]
    BY <1>3, <2>1
  <2>8. \A r \in Rank : \A n \in Name : \A s \in Rank :
           fresh'[r][n][s] = IF r = to /\ n = c.name /\ s = q THEN one ELSE fresh[r][n][s]
    BY <2>3, <2>5, <2>7
  <2>9. ASSUME NEW r \in Rank, NEW n \in Name, NEW s \in Rank
        PROVE  fresh'[r][n][s] =
                     IF \/ c.op = "put" /\ r = to /\ n = c.name /\ s = q
                        \/ c.op = "get" /\ r = q /\ n = c.name /\ s = to
                     THEN TRUE
                     ELSE fresh[r][n][s]
    BY <1>5, <2>8 DEF one
  <2> QED
    BY <1>1, <1>2, <2>6, <2>9 DEF c, to
<1>6. CASE c.op = "get"
  <2> HIDE DEF two
  <2> DEFINE row == [fresh[q][c.name] EXCEPT ![to] = two]
             rows == [fresh[q] EXCEPT ![c.name] = row]
  <2>1. fresh' = [fresh EXCEPT ![q] = rows]
    BY <1>1, <1>6
  <2>2. row \in [Rank -> BOOLEAN]
    BY <1>2, <1>3, <1>4
  <2>3. \A s \in Rank : row[s] = IF s = to THEN two ELSE fresh[q][c.name][s]
    BY <1>2, <1>3
  <2> HIDE DEF row
  <2>4. rows \in [Name -> [Rank -> BOOLEAN]]
    BY <1>2, <1>3, <2>2
  <2>5. \A n \in Name : rows[n] = IF n = c.name THEN row ELSE fresh[q][n]
    BY <1>2, <1>3
  <2> HIDE DEF rows
  <2>6. fresh' \in [Rank -> [Name -> [Rank -> BOOLEAN]]]
    BY <1>2, <1>3, <2>1, <2>4
  <2>7. \A r \in Rank : fresh'[r] = IF r = q THEN rows ELSE fresh[r]
    BY <1>3, <2>1
  <2>8. \A r \in Rank : \A n \in Name : \A s \in Rank :
           fresh'[r][n][s] = IF r = q /\ n = c.name /\ s = to THEN two ELSE fresh[r][n][s]
    BY <2>3, <2>5, <2>7
  <2>9. ASSUME NEW r \in Rank, NEW n \in Name, NEW s \in Rank
        PROVE  fresh'[r][n][s] =
                     IF \/ c.op = "put" /\ r = to /\ n = c.name /\ s = q
                        \/ c.op = "get" /\ r = q /\ n = c.name /\ s = to
                     THEN TRUE
                     ELSE fresh[r][n][s]
    BY <1>6, <2>8 DEF two
  <2> QED
    BY <1>1, <1>2, <2>6, <2>9 DEF c, to
<1>7. CASE c.op = "accumulate"
  BY <1>1, <1>2, <1>3, <1>7 DEF c, to
<1> QED
  BY <1>2, <1>5, <1>6, <1>7 DEF Moving

LEMMA VersionEffect ==
  ASSUME VersionInv, NEW q \in Rank, UpdateVersion(q)
  PROVE  LET c == Operation(q).call
             to == Head(bg[q].ranks)
         IN /\ fresh' = fresh /\ bg[q].at = "version"
            /\ version' \in [Rank -> [Name -> [Rank -> Nat]]]
            /\ c.name \in Name /\ to \in Rank
            /\ \A r \in Rank : \A n \in Name : \A s \in Rank :
                  version'[r][n][s] =
                     IF \/ c.op = "put" /\ r = to /\ n = c.name /\ s = q
                        \/ c.op = "get" /\ r = q /\ n = c.name /\ s = to
                     THEN version[r][n][s] + 1
                     ELSE version[r][n][s]
<1> DEFINE c == Operation(q).call
           to == Head(bg[q].ranks)
           one == version[to][c.name][q] + 1
           two == version[q][c.name][to] + 1
<1>1. /\ c.op = "put" => version' = [version EXCEPT ![to][c.name][q] = one]
      /\ c.op = "accumulate" => version' = version
      /\ c.op = "get" => version' = [version EXCEPT ![q][c.name][to] = two]
      /\ fresh' = fresh /\ bg[q].at = "version"
  BY DEF UpdateVersion, Running
<1>2. c.name \in Name /\ to \in Rank /\ c.op \in Moving
  BY <1>1, Progress DEF VersionInv
<1>3. version \in [Rank -> [Name -> [Rank -> Nat]]]
  BY DEF VersionInv, MemoryTypes
<1> HIDE DEF c, to
<1>4. one \in Nat /\ two \in Nat
  BY <1>2, <1>3
<1>5. CASE c.op = "put"
  <2> HIDE DEF one
  <2> DEFINE row == [version[to][c.name] EXCEPT ![q] = one]
             rows == [version[to] EXCEPT ![c.name] = row]
  <2>1. version' = [version EXCEPT ![to] = rows]
    BY <1>1, <1>5
  <2>2. row \in [Rank -> Nat]
    BY <1>2, <1>3, <1>4
  <2>3. \A s \in Rank : row[s] = IF s = q THEN one ELSE version[to][c.name][s]
    BY <1>2, <1>3
  <2> HIDE DEF row
  <2>4. rows \in [Name -> [Rank -> Nat]]
    BY <1>2, <1>3, <2>2
  <2>5. \A n \in Name : rows[n] = IF n = c.name THEN row ELSE version[to][n]
    BY <1>2, <1>3
  <2> HIDE DEF rows
  <2>6. version' \in [Rank -> [Name -> [Rank -> Nat]]]
    BY <1>2, <1>3, <2>1, <2>4
  <2>7. \A r \in Rank : version'[r] = IF r = to THEN rows ELSE version[r]
    BY <1>3, <2>1
  <2>8. \A r \in Rank : \A n \in Name : \A s \in Rank :
           version'[r][n][s] = IF r = to /\ n = c.name /\ s = q THEN one ELSE version[r][n][s]
    BY <2>3, <2>5, <2>7
  <2>9. ASSUME NEW r \in Rank, NEW n \in Name, NEW s \in Rank
        PROVE  version'[r][n][s] =
                     IF \/ c.op = "put" /\ r = to /\ n = c.name /\ s = q
                        \/ c.op = "get" /\ r = q /\ n = c.name /\ s = to
                     THEN version[r][n][s] + 1
                     ELSE version[r][n][s]
    BY <1>5, <2>8 DEF one
  <2> QED
    BY <1>1, <1>2, <2>6, <2>9 DEF c, to
<1>6. CASE c.op = "get"
  <2> HIDE DEF two
  <2> DEFINE row == [version[q][c.name] EXCEPT ![to] = two]
             rows == [version[q] EXCEPT ![c.name] = row]
  <2>1. version' = [version EXCEPT ![q] = rows]
    BY <1>1, <1>6
  <2>2. row \in [Rank -> Nat]
    BY <1>2, <1>3, <1>4
  <2>3. \A s \in Rank : row[s] = IF s = to THEN two ELSE version[q][c.name][s]
    BY <1>2, <1>3
  <2> HIDE DEF row
  <2>4. rows \in [Name -> [Rank -> Nat]]
    BY <1>2, <1>3, <2>2
  <2>5. \A n \in Name : rows[n] = IF n = c.name THEN row ELSE version[q][n]
    BY <1>2, <1>3
  <2> HIDE DEF rows
  <2>6. version' \in [Rank -> [Name -> [Rank -> Nat]]]
    BY <1>2, <1>3, <2>1, <2>4
  <2>7. \A r \in Rank : version'[r] = IF r = q THEN rows ELSE version[r]
    BY <1>3, <2>1
  <2>8. \A r \in Rank : \A n \in Name : \A s \in Rank :
           version'[r][n][s] = IF r = q /\ n = c.name /\ s = to THEN two ELSE version[r][n][s]
    BY <2>3, <2>5, <2>7
  <2>9. ASSUME NEW r \in Rank, NEW n \in Name, NEW s \in Rank
        PROVE  version'[r][n][s] =
                     IF \/ c.op = "put" /\ r = to /\ n = c.name /\ s = q
                        \/ c.op = "get" /\ r = q /\ n = c.name /\ s = to
                     THEN version[r][n][s] + 1
                     ELSE version[r][n][s]
    BY <1>6, <2>8 DEF two
  <2> QED
    BY <1>1, <1>2, <2>6, <2>9 DEF c, to
<1>7. CASE c.op = "accumulate"
  BY <1>1, <1>2, <1>3, <1>7 DEF c, to
<1> QED
  BY <1>2, <1>5, <1>6, <1>7 DEF Moving

LEMMA MemoryStep ==
  ASSUME VersionInv, [Next]_vars
  PROVE  MemoryTypes'
<1>1. WinInv /\ MemoryTypes
  BY DEF VersionInv
<1>2. CASE version' = version /\ fresh' = fresh
  BY <1>1, <1>2 DEF MemoryTypes
<1>3. ASSUME NEW r \in Rank, UserThread(r) PROVE MemoryTypes'
  <2>1. CASE WindowSync(r)
    <3> DEFINE cleared == [version EXCEPT ![r][Call(r).name] = [s \in Rank |-> 0]]
    <3>1. (version' = version \/ version' = cleared) /\ fresh' = fresh
      BY <2>1 DEF WindowSync
    <3>2. cleared \in [Rank -> [Name -> [Rank -> Nat]]]
      BY <1>1 DEF MemoryTypes
    <3> QED
      BY <1>1, <3>1, <3>2 DEF MemoryTypes
  <2>2. CASE Average(r)
    <3> DEFINE n == Call(r).name
               args == UpdateArgs(r)
               v == [s \in Rank |-> fresh[r][n][s] /\ args.average /\ s \notin DOMAIN args.weights]
    <3>1. /\ fresh' = [fresh EXCEPT ![r][n] = v]
          /\ version' = version
      BY <2>2 DEF Average
    <3>2. v \in [Rank -> BOOLEAN]
      OBVIOUS
    <3> HIDE DEF n, v
    <3> QED
      BY <1>1, <3>1, <3>2 DEF MemoryTypes
  <2> QED
    BY <1>2, <1>3, <2>1, <2>2, UserEffects
<1>4. ASSUME NEW r \in Rank, BackgroundThread(r) PROVE MemoryTypes'
  <2>1. CASE UpdateVersion(r)
    BY <1>1, <2>1, VersionEffect DEF MemoryTypes
  <2>2. CASE Transfer(r)
    BY <1>1, <2>2, TransferEffect DEF MemoryTypes
  <2> QED
    BY <1>2, <1>4, <2>1, <2>2, BackgroundEffects
<1>5. CASE CreateWindows
  <2> DEFINE n == Head(queue[0]).call.name
  <2>1. PICK new : version' = [r \in Rank |-> [version[r] EXCEPT ![n] =
                            IF r \in new THEN [s \in Rank |-> 0] ELSE @]]
    BY <1>5 DEF CreateWindows
  <2>2. PICK new2 : fresh' = [r \in Rank |-> [fresh[r] EXCEPT ![n] =
                            IF r \in new2 THEN [s \in Rank |-> FALSE] ELSE @]]
    BY <1>5 DEF CreateWindows
  <2> HIDE DEF n
  <2>3. ASSUME NEW r \in Rank
        PROVE  /\ version'[r] \in [Name -> [Rank -> Nat]]
               /\ fresh'[r] \in [Name -> [Rank -> BOOLEAN]]
    <3>1. version[r] \in [Name -> [Rank -> Nat]] /\ fresh[r] \in [Name -> [Rank -> BOOLEAN]]
      BY <1>1 DEF MemoryTypes
    <3>2. version'[r] \in [Name -> [Rank -> Nat]]
      BY <2>1, <3>1
    <3>3. fresh'[r] \in [Name -> [Rank -> BOOLEAN]]
      BY <2>2, <3>1
    <3> QED
      BY <3>2, <3>3
  <2>4. version' \in [Rank -> [Name -> [Rank -> Nat]]]
    BY <2>1, <2>3
  <2>5. fresh' \in [Rank -> [Name -> [Rank -> BOOLEAN]]]
    BY <2>2, <2>3
  <2> QED
    BY <2>4, <2>5 DEF MemoryTypes
<1>6. CASE FreeWindows \/ UNCHANGED vars \/ \E t \in Thread : Spin(t)
  BY <1>2, <1>6 DEF FreeWindows, vars, memory, Spin
<1> QED
  BY <1>3, <1>4, <1>5, <1>6 DEF Next

LEMMA UserBuffers ==
  ASSUME VersionInv, NEW n \in Name, Versioned(n), NEW r \in Rank,
         NEW s \in in_neighbor_ranks(r), BufferInv(n, r, s), NEW q \in Rank, UserThread(q)
  PROVE  BufferInv(n, r, s)'
<1>1. /\ job' = job /\ bg' = bg /\ s \in Rank
      /\ \A x \in Rank : x # q => pos'[x] = pos[x] /\ pc'[x] = pc[x]
      /\ \A x \in Rank : bg[x].at # "idle" => Operation(x)' = Operation(x)
  BY UserEffects, PeersRange
<1>2. /\ pc'[q] = "average" => WindowSync(q)
      /\ version' = version \/ WindowSync(q)
      /\ fresh' = fresh \/ Average(q)
  BY UserEffects
<1>3. MemoryTypes /\ WinInv /\ Types /\ ~suspended[q]
  BY DEF VersionInv, WinInv, CalmInv, Versioned
<1>4. PutPending(n, r, s)' <=> PutPending(n, r, s)
  BY <1>1 DEF PutPending, Counting
<1>5. GetPending(n, r, s)' <=> GetPending(n, r, s)
  BY <1>1 DEF GetPending, Counting
<1>6. CASE WindowSync(q)
  <2> DEFINE m == Call(q).name
             zero == [x \in Rank |-> 0]
  <2>1. /\ version' = [version EXCEPT ![q][m] = zero] /\ fresh' = fresh
        /\ pos' = pos /\ pc' = [pc EXCEPT ![q] = "average"] /\ pc[q] = "sync"
    BY <1>3, <1>6 DEF WindowSync, Updates, InCall, GoTo
  <2>2. Call(r)' = Call(r)
    BY <1>1, <2>1, SameCall
  <2>3. DOMAIN pc = Rank
    BY <1>3 DEF Types
  <2>4. CASE r = q /\ m = n
    <3>1. version'[r][n][s] = 0
      <4>1. version'[r][n] = zero
        <5> HIDE DEF zero
        <5> QED
          BY <1>3, <2>1, <2>4 DEF MemoryTypes
      <4> QED
        BY <1>1, <4>1
    <3>2. Averaging(n, r)'
      BY <2>1, <2>2, <2>3, <2>4 DEF Averaging
    <3> QED
      BY <1>4, <1>5, <2>1, <3>1, <3>2 DEF BufferInv
  <2>5. CASE r # q \/ m # n
    <3>1. version'[r][n] = version[r][n]
      <4> HIDE DEF m, zero
      <4> QED
        BY <1>3, <2>1, <2>5 DEF MemoryTypes
    <3>2. Averaging(n, r)' <=> Averaging(n, r)
      BY <2>1, <2>2, <2>3, <2>5 DEF Averaging
    <3> QED
      BY <1>4, <1>5, <2>1, <3>1, <3>2, BufferFrame
  <2> QED
    BY <2>4, <2>5
<1>7. CASE Average(q)
  <2> DEFINE m == Call(q).name
             args == UpdateArgs(q)
             left == [x \in Rank |-> fresh[q][m][x] /\ args.average /\ x \notin DOMAIN args.weights]
  <2>1. /\ fresh' = [fresh EXCEPT ![q][m] = left] /\ version' = version
        /\ pos' = pos /\ pc' = [pc EXCEPT ![q] = "reset"] /\ pc[q] = "average"
    BY <1>3, <1>7 DEF Average, Updates, InCall, GoTo
  <2>2. Call(r)' = Call(r)
    BY <1>1, <2>1, SameCall
  <2>3. DOMAIN pc = Rank
    BY <1>3 DEF Types
  <2>4. CASE r = q /\ m = n
    <3>1. Averaging(n, r)
      BY <2>1, <2>4 DEF Averaging
    <3>2. s \in DOMAIN args.weights /\ ~PutPending(n, r, s) /\ ~GetPending(n, r, s)
      BY <2>4, <3>1, Excluded
    <3>3. ~left[s]
      BY <1>1, <3>2
    <3>4. ~fresh'[r][n][s]
      <4>1. fresh'[r][n] = left
        <5> HIDE DEF left
        <5> QED
          BY <1>3, <2>1, <2>4 DEF MemoryTypes
      <4> QED
        BY <3>3, <4>1
    <3>5. version'[r][n][s] = 0 /\ ~Averaging(n, r)'
      BY <2>1, <2>3, <2>4, <3>1 DEF BufferInv, Averaging
    <3> QED
      BY <1>4, <1>5, <3>2, <3>4, <3>5 DEF BufferInv
  <2>5. CASE r # q \/ m # n
    <3>1. fresh'[r][n] = fresh[r][n]
      <4> HIDE DEF m, left
      <4> QED
        BY <1>3, <2>1, <2>5 DEF MemoryTypes
    <3>2. Averaging(n, r)' <=> Averaging(n, r)
      BY <2>1, <2>2, <2>3, <2>5 DEF Averaging
    <3> QED
      BY <1>4, <1>5, <2>1, <3>1, <3>2, BufferFrame
  <2> QED
    BY <2>4, <2>5
<1>8. CASE ~WindowSync(q) /\ ~Average(q)
  <2>1. version' = version /\ fresh' = fresh /\ pc'[q] # "average"
    BY <1>2, <1>8
  <2>2. pc[q] # "average"
    BY <1>8 DEF UserThread, WinCreate, WinFree, WinCreated, WinCommunicate, WinWait, WinWaited,
                WinUpdate, Reset, EnterMutex, ExitMutex, SetAssociatedP, SetSuspended, Calls,
                Updates, InCall
  <2>3. Averaging(n, r)' <=> Averaging(n, r)
    <3>1. CASE r = q
      BY <2>1, <2>2, <3>1 DEF Averaging
    <3>2. CASE r # q
      BY <1>1, <3>2, SameCall DEF Averaging
    <3> QED
      BY <3>1, <3>2
  <2> QED
    BY <1>4, <1>5, <2>1, <2>3, BufferFrame
<1> QED
  BY <1>6, <1>7, <1>8

LEMMA BackgroundBuffers ==
  ASSUME VersionInv, NEW n \in Name, Versioned(n), NEW r \in Rank,
         NEW s \in in_neighbor_ranks(r), BufferInv(n, r, s), NEW q \in Rank, BackgroundThread(q)
  PROVE  BufferInv(n, r, s)'
<1> DEFINE c == Operation(q).call
           to == Head(bg[q].ranks)
<1>1. /\ job' = job /\ pos' = pos /\ pc' = pc /\ s \in Rank
      /\ \A x \in Rank : x # q => bg'[x] = bg[x] /\ Operation(x)' = Operation(x)
  BY BackgroundEffects, PeersRange
<1>2. /\ bg'[q].at = "version" =>
            Transfer(q) /\ bg'[q].ranks = bg[q].ranks /\ Operation(q)' = Operation(q)
      /\ version' = version \/ UpdateVersion(q)
      /\ fresh' = fresh \/ Transfer(q)
  BY BackgroundEffects
<1>3. Averaging(n, r)' <=> Averaging(n, r)
  BY <1>1, SameCall DEF Averaging
<1>4. WinInv /\ Types /\ MemoryTypes
  BY DEF VersionInv, WinInv
<1>5. CASE Transfer(q)
  <2>1. /\ bg[q].at = "transfer" /\ c.name \in Name /\ to \in Rank /\ version' = version
    BY <1>5, TransferEffect
  <2>2. fresh'[r][n][s] = IF \/ c.op = "put" /\ r = to /\ n = c.name /\ s = q
                             \/ c.op = "get" /\ r = q /\ n = c.name /\ s = to
                          THEN TRUE ELSE fresh[r][n][s]
    <3>1. \A x \in Rank : \A m \in Name : \A y \in Rank :
             fresh'[x][m][y] = IF \/ c.op = "put" /\ x = to /\ m = c.name /\ y = q
                                  \/ c.op = "get" /\ x = q /\ m = c.name /\ y = to
                               THEN TRUE ELSE fresh[x][m][y]
      BY <1>5, TransferEffect
    <3>2. s \in Rank
      BY <1>1
    <3> HIDE DEF c, to
    <3> QED
      BY <3>1, <3>2, Zenon
  <2>3. bg'[q].at = "version" /\ bg'[q].ranks = bg[q].ranks /\ Operation(q)' = Operation(q)
    <3>1. bg'[q].at = "version"
      BY <1>4, <1>5, SameRank DEF Transfer
    <3> QED
      BY <1>2, <3>1
  <2>4. PutPending(n, r, s)' <=> IF s = q THEN c.op = "put" /\ n = c.name /\ r = to
                                 ELSE PutPending(n, r, s)
    BY <1>1, <2>3 DEF PutPending, Counting
  <2>5. GetPending(n, r, s)' <=> IF r = q THEN c.op = "get" /\ n = c.name /\ s = to
                                 ELSE GetPending(n, r, s)
    BY <1>1, <2>3 DEF GetPending, Counting
  <2>6. (s = q => ~PutPending(n, r, s)) /\ (r = q => ~GetPending(n, r, s))
    BY <2>1 DEF PutPending, GetPending, Counting
  <2>7. fresh'[r][n][s] <=> \/ s = q /\ PutPending(n, r, s)'
                            \/ r = q /\ GetPending(n, r, s)'
                            \/ fresh[r][n][s]
    BY <2>2, <2>4, <2>5
  <2> QED
    BY <1>3, <2>1, <2>4, <2>5, <2>6, <2>7 DEF BufferInv
<1>6. CASE UpdateVersion(q)
  <2>1. /\ bg[q].at = "version" /\ c.name \in Name /\ to \in Rank /\ fresh' = fresh
    BY <1>6, VersionEffect
  <2>2. version'[r][n][s] = IF \/ c.op = "put" /\ r = to /\ n = c.name /\ s = q
                               \/ c.op = "get" /\ r = q /\ n = c.name /\ s = to
                            THEN version[r][n][s] + 1 ELSE version[r][n][s]
    BY <1>1, <1>6, VersionEffect
  <2>3. bg'[q].at = "p"
    BY <1>4, <1>6, SameRank DEF UpdateVersion
  <2>4. PutPending(n, r, s)' <=> s # q /\ PutPending(n, r, s)
    BY <1>1, <2>3 DEF PutPending, Counting
  <2>5. GetPending(n, r, s)' <=> r # q /\ GetPending(n, r, s)
    BY <1>1, <2>3 DEF GetPending, Counting
  <2>6. /\ s = q => (PutPending(n, r, s) <=> c.op = "put" /\ r = to /\ n = c.name)
        /\ r = q => (GetPending(n, r, s) <=> c.op = "get" /\ s = to /\ n = c.name)
    BY <2>1 DEF PutPending, GetPending, Counting
  <2>7. version[r][n][s] \in Nat
    BY <1>1, <1>4 DEF MemoryTypes
  <2>8. CASE (s = q /\ PutPending(n, r, s)) \/ (r = q /\ GetPending(n, r, s))
    <3>1. version'[r][n][s] = version[r][n][s] + 1
      BY <2>2, <2>6, <2>8
    <3>2. version'[r][n][s] > 0
      BY <2>7, <3>1
    <3>3. ~Averaging(n, r)
      BY <2>8, Excluded
    <3>4. fresh'[r][n][s]
      BY <2>1, <2>8 DEF BufferInv
    <3> QED
      BY <1>3, <3>2, <3>3, <3>4 DEF BufferInv
  <2>9. CASE ~(s = q /\ PutPending(n, r, s)) /\ ~(r = q /\ GetPending(n, r, s))
    <3>1. version'[r][n][s] = version[r][n][s]
      BY <2>2, <2>6, <2>9
    <3> QED
      BY <1>3, <2>1, <2>4, <2>5, <2>9, <3>1, BufferFrame
  <2> QED
    BY <2>8, <2>9
<1>7. CASE ~Transfer(q) /\ ~UpdateVersion(q)
  <2>1. version' = version /\ fresh' = fresh /\ bg'[q].at # "version"
    BY <1>2, <1>7
  <2>2. bg[q].at # "version"
    BY <1>7 DEF BackgroundThread, StartOperation, LockTarget, TransferP, Callback, Running
  <2>3. PutPending(n, r, s)' <=> PutPending(n, r, s)
    BY <1>1, <2>1, <2>2 DEF PutPending, Counting
  <2>4. GetPending(n, r, s)' <=> GetPending(n, r, s)
    BY <1>1, <2>1, <2>2 DEF GetPending, Counting
  <2> QED
    BY <1>3, <2>1, <2>3, <2>4, BufferFrame
<1> QED
  BY <1>5, <1>6, <1>7

LEMMA CollectiveBuffers ==
  ASSUME VersionInv, NEW n \in Name, NEW r \in Rank,
         NEW s \in in_neighbor_ranks(r), BufferInv(n, r, s), CreateWindows \/ FreeWindows
  PROVE  BufferInv(n, r, s)'
<1>1. PICK op \in {"create", "free"} : Everyone(op)
  BY DEF CreateWindows, FreeWindows
<1>2. /\ job' = job /\ pos' = pos /\ pc' = pc /\ bg' = bg /\ s \in Rank
  BY PeersRange DEF CreateWindows, FreeWindows, python
<1>3. WinInv /\ MemoryTypes
  BY DEF VersionInv
<1>4. \A x \in Rank : bg[x].at = "idle" /\ pc[x] = "blocked"
  BY <1>1, <1>3, AllWait
<1>5. /\ ~PutPending(n, r, s) /\ ~GetPending(n, r, s) /\ ~Averaging(n, r)
      /\ ~PutPending(n, r, s)' /\ ~GetPending(n, r, s)' /\ ~Averaging(n, r)'
  BY <1>2, <1>4 DEF PutPending, GetPending, Counting, Averaging
<1>6. CASE FreeWindows
  <2>1. version' = version /\ fresh' = fresh
    BY <1>6 DEF FreeWindows, memory
  <2> QED
    BY <1>5, <2>1, BufferFrame
<1>7. CASE CreateWindows
  <2> DEFINE m == Operation(0).call.name
             new == {x \in Rank : SameShape /\ m \notin windows[x]}
             zero == [x \in Rank |-> 0]
             none == [x \in Rank |-> FALSE]
  <2>1. /\ Everyone("create")
        /\ version' = [x \in Rank |-> [version[x] EXCEPT ![m] = IF x \in new THEN zero ELSE @]]
        /\ fresh' = [x \in Rank |-> [fresh[x] EXCEPT ![m] = IF x \in new THEN none ELSE @]]
    BY <1>7 DEF CreateWindows, Operation
  <2> HIDE DEF m, new
  <2>3. CASE n = m /\ r \in new
    <3>1. version'[r][n] = zero /\ fresh'[r][n] = none
      <4> HIDE DEF zero, none
      <4> QED
        BY <1>3, <2>1, <2>3 DEF MemoryTypes
    <3>2. version'[r][n][s] = 0 /\ ~fresh'[r][n][s]
      BY <1>2, <3>1
    <3> QED
      BY <1>5, <3>2 DEF BufferInv
  <2>4. CASE n # m \/ r \notin new
    <3>1. version'[r][n] = version[r][n] /\ fresh'[r][n] = fresh[r][n]
      <4> HIDE DEF zero, none
      <4> QED
        BY <1>3, <2>1, <2>4 DEF MemoryTypes
    <3> QED
      BY <1>5, <3>1, BufferFrame
  <2> QED
    BY <2>3, <2>4
<1> QED
  BY <1>6, <1>7

LEMMA CalmStep ==
  ASSUME VersionInv, [Next]_vars
  PROVE  CalmInv'
<1>1. WinInv /\ Types /\ CalmInv
  BY DEF VersionInv, WinInv
<1>2. job' = job
  BY UserEffects, BackgroundEffects
     DEF Next, CreateWindows, FreeWindows, Spin, vars, python
<1>3. Undisturbed' <=> Undisturbed
  BY <1>2, SameCalls DEF Undisturbed
<1>4. CASE suspended' = suspended
  BY <1>1, <1>3, <1>4 DEF CalmInv
<1>5. ASSUME NEW q \in Rank, SetSuspended(q) PROVE CalmInv'
  <2>1. /\ suspended' = [suspended EXCEPT ![q] = Call(q).op = "suspend"]
        /\ ~Ended(q)
    BY <1>5 DEF SetSuspended, Calls, InCall
  <2>2. Call(q) \in AllCalls
    BY <1>1, <2>1, AtCall
  <2> QED
    BY <1>1, <1>3, <2>1, <2>2 DEF CalmInv, Undisturbed, Types
<1>6. CASE \E q \in Rank : UserThread(q)
  BY <1>4, <1>5, <1>6, UserEffects
<1>7. CASE \E q \in Rank : BackgroundThread(q)
  BY <1>4, <1>7, BackgroundEffects
<1>8. CASE CreateWindows \/ FreeWindows \/ UNCHANGED vars \/ \E t \in Thread : Spin(t)
  BY <1>4, <1>8 DEF CreateWindows, FreeWindows, Spin, vars, python
<1> QED
  BY <1>6, <1>7, <1>8 DEF Next

LEMMA FreshStep ==
  ASSUME VersionInv, [Next]_vars
  PROVE  FreshInv'
<1>1. job' = job
  BY UserEffects, BackgroundEffects
     DEF Next, CreateWindows, FreeWindows, Spin, vars, python
<1>2. SUFFICES ASSUME NEW n \in Name, Versioned(n), NEW r \in Rank, NEW s \in in_neighbor_ranks(r)
               PROVE  BufferInv(n, r, s)'
  BY <1>1, SameVersioned DEF FreshInv
<1>3. BufferInv(n, r, s)
  BY <1>2 DEF VersionInv, FreshInv
<1>4. CASE UNCHANGED vars \/ \E t \in Thread : Spin(t)
  <2>1. /\ job' = job /\ pos' = pos /\ pc' = pc /\ bg' = bg /\ queue' = queue
        /\ version' = version /\ fresh' = fresh
    BY <1>4 DEF vars, Spin, python, library, memory
  <2>2. /\ PutPending(n, r, s)' <=> PutPending(n, r, s)
        /\ GetPending(n, r, s)' <=> GetPending(n, r, s)
        /\ Averaging(n, r)' <=> Averaging(n, r)
    BY <2>1 DEF PutPending, GetPending, Counting, Operation, Averaging, Call
  <2> QED
    BY <1>3, <2>1, <2>2, BufferFrame
<1> QED
  BY <1>2, <1>3, <1>4, UserBuffers, BackgroundBuffers, CollectiveBuffers DEF Next

-----------------------------------------------------------------------------
(* The theorem *)

LEMMA VersionInvInit == Init => VersionInv
<1> SUFFICES ASSUME Init PROVE VersionInv
  OBVIOUS
<1>1. WinInv /\ MutexInv
  BY WinInvInit, MutexInvInit DEF Init
<1>2. MemoryTypes
  BY DEF Init, MemoryTypes
<1>3. \A r \in Rank : pc[r] = "run" /\ bg[r].at = "idle"
  BY DEF Init, NoOperation
<1>4. HoldInv
  BY <1>3 DEF HoldInv, UserHolds, BackgroundHolds
<1>7. CalmInv
  BY DEF Init, CalmInv
<1>5. ASSUME NEW n \in Name, NEW r \in Rank, NEW s \in Rank
      PROVE  version[r][n][s] = 0 /\ ~fresh[r][n][s]
  BY DEF Init
<1>6. FreshInv
  BY <1>3, <1>5, PeersRange
     DEF FreshInv, BufferInv, PutPending, GetPending, Counting, Averaging
<1> QED
  BY <1>1, <1>2, <1>4, <1>6, <1>7 DEF VersionInv

LEMMA VersionInvStep == VersionInv /\ [Next]_vars /\ [MutexNext]_mutexVars => VersionInv'
BY WinInvStep, MutexInvStep, HoldStep, MemoryStep, CalmStep, FreshStep DEF VersionInv

\* If the threads take and give back mutexes as MutexSpec says, a version of 0 means that the
\* buffer was read and another that it was not: the buffer and its version are written in two
\* steps (WinPut, WinGet, mpi_controller.cc:953-1121), and cleared and read in two others
\* (DoWinSync, mpi_win_ops.cc:345-426), which the mutex keeps apart.
THEOREM VersionsCorrect == Spec /\ UsesMutex => []VersionsMeanFresh
<1>1. VersionInv => VersionsMeanFresh
  <2> SUFFICES ASSUME VersionInv, NEW n \in Name, NEW r \in Rank, n \in windows[r],
                      Versioned(n), Quiet, NEW s \in in_neighbor_ranks(r),
                      Holders(<<n, r, s>>) = {}
               PROVE  (get_win_version(r, n)[s] > 0) <=> fresh[r][n][s]
    BY DEF VersionsMeanFresh
  <2>1. get_win_version(r, n)[s] = version[r][n][s]
    BY DEF get_win_version
  <2>2. BufferInv(n, r, s) /\ s \in Rank
    BY PeersRange DEF VersionInv, FreshInv
  <2>3. ~PutPending(n, r, s) /\ ~GetPending(n, r, s)
    BY <2>2 DEF Quiet, PutPending, GetPending, Counting
  <2>4. ~Averaging(n, r)
    <3> SUFFICES ASSUME Averaging(n, r) PROVE FALSE
      OBVIOUS
    <3>1. <<n, r, s>> \in held[User(r)] /\ User(r) \in Thread
      BY Excluded, ThreadsDiffer
    <3> QED
      BY <3>1 DEF Holders
  <2> QED
    BY <2>1, <2>2, <2>3, <2>4 DEF BufferInv
<1> QED
  BY <1>1, VersionInvInit, VersionInvStep, PTL DEF Spec, UsesMutex, MutexSpec

-----------------------------------------------------------------------------
(* Scripts without with blocks give back what they take *)

\* The scripts leave the mutexes to the operations that are called with require_mutex, and
\* a thread may ask for any list of mutexes.
WithoutBlocks ==
    /\ \A j \in Jobs : \A r \in Rank : \A i \in DOMAIN j[r] : j[r][i].op \notin {"enter", "exit"}
    /\ Seq(Slot) \subseteq SlotLists

\* What the user thread in win_update, or the background thread in a transfer, asked for.
Asked(r) ==
    IF Call(r).mutex /\ ~suspended[r]
    THEN {<<Call(r).name, r, s>> : s \in DOMAIN UpdateArgs(r).weights}
    ELSE {}
AskedAt(r) == IF Operation(r).call.mutex THEN {SlotAt(r)} ELSE {}

\* A thread has and takes nothing but what it asked for; it gives back all that it has.
Within(t, S) ==
    /\ held[t] \subseteq S
    /\ spin[t].at \in {"fetch", "undo"} => \A i \in DOMAIN spin[t].todo : spin[t].todo[i] \in S
Emptying(t) ==
    /\ spin[t].at \notin {"fetch", "undo"}
    /\ \A s \in held[t] : /\ spin[t].at = "drop"
                          /\ \E i \in DOMAIN spin[t].todo : spin[t].todo[i] = s

UserLeaves(r) ==
    IF pc[r] \in {"sync", "average", "reset"}
    THEN Within(User(r), Asked(r)) /\ Call(r).name \in Name
    ELSE Emptying(User(r)) /\ (pc[r] # "run" => Outside(User(r)))
BackgroundLeaves(r) ==
    IF bg[r].at \in {"transfer", "version", "p"} THEN Within(Background(r), AskedAt(r))
    ELSE Emptying(Background(r)) /\ (bg[r].at = "idle" => Outside(Background(r)))
LeaveInv == \A r \in Rank : UserLeaves(r) /\ BackgroundLeaves(r)

LEMMA FiniteRanks ==
  ASSUME NEW S, S \subseteq Rank
  PROVE  IsFiniteSet(S) /\ Cardinality(S) \in Nat
<1>1. PICK n \in Nat : Rank = 0 .. n
  BY TopoAssumption
<1>2. IsFiniteSet(Rank)
  BY <1>1, FS_Interval
<1>3. IsFiniteSet(S)
  BY <1>2, S \in SUBSET Rank, FS_Subset
<1> QED
  BY <1>3, FS_CardinalityType

\* The list of win_update has every mutex that was asked for once.
LEMMA ListedOnce ==
  ASSUME NEW r \in Rank, NEW n \in Name, NEW S, S \subseteq Rank, NEW q \in OwnSlots(r, n, S)
  PROVE  /\ q \in Seq(Slot)
         /\ \A i, j \in DOMAIN q : q[i] = q[j] => i = j
         /\ \A i \in DOMAIN q : q[i] \in {<<n, r, s>> : s \in S}
         /\ \A s \in S : \E i \in DOMAIN q : q[i] = <<n, r, s>>
<1> DEFINE k == Cardinality(S)
<1>1. k \in Nat
  BY FiniteRanks
<1>2. PICK f \in [1 .. k -> S] : /\ \A s \in S : \E i \in DOMAIN f : f[i] = s
                                 /\ q = [i \in DOMAIN f |-> <<n, r, f[i]>>]
  BY DEF OwnSlots
<1>3. DOMAIN f = 1 .. k /\ IsFiniteSet(S)
  BY <1>2, FiniteRanks
<1>4. \A i, j \in DOMAIN f : f[i] = f[j] => i = j
  BY <1>2, <1>3, NoneTwice
<1>5. \A i, j \in 1 .. k : f[i] = f[j] => i = j
  BY <1>3, <1>4
<1> HIDE DEF k
<1>7. /\ DOMAIN q = 1 .. k
      /\ \A i \in 1 .. k : q[i] = <<n, r, f[i]>> /\ f[i] \in S /\ f[i] \in Rank
  BY <1>2
<1>8. q \in [1 .. k -> Slot]
  <2>1. ASSUME NEW i \in 1 .. k PROVE q[i] \in Slot
    <3>1. q[i] = <<n, r, f[i]>> /\ f[i] \in Rank
      BY <1>7
    <3> QED
      BY <3>1, n \in Name, r \in Rank DEF Slot
  <2>2. q = [i \in 1 .. k |-> q[i]]
    BY <1>2, <1>3
  <2> QED
    BY <2>1, <2>2
<1>9. q \in Seq(Slot)
  BY <1>1, <1>8, SeqDef
<1>10. \A i, j \in DOMAIN q : q[i] = q[j] => i = j
  BY <1>5, <1>7
<1> QED
  BY <1>2, <1>7, <1>9, <1>10

\* A list that At starts to work off.
LEMMA Listed ==
  ASSUME NEW q, NEW where
  PROVE  /\ At(where, q).todo = q
         /\ At(where, q).at = IF q = <<>> THEN "out" ELSE where
         /\ q = <<>> => DOMAIN q = {}
BY DEF At

\* What spinning threads have and give back.
LEMMA SpinLeaves ==
  ASSUME MutexInv, NEW t \in Thread, NEW u \in Thread, FetchAndAdd(u) \/ Undo(u) \/ Drop(u)
  PROVE  /\ \A S : Within(t, S) => Within(t, S)'
         /\ Emptying(t) => Emptying(t)' /\ (Outside(t) => Outside(t)')
<1>1. MutexType
  BY DEF MutexInv
<1>2. CASE u # t
  <2>1. spin'[t] = spin[t] /\ held'[t] = held[t]
    <3>1. CASE FetchAndAdd(u)
      BY <1>1, <1>2, <3>1 DEF FetchAndAdd, MutexType
    <3>2. CASE Undo(u)
      BY <1>1, <1>2, <3>2 DEF Undo, MutexType
    <3>3. CASE Drop(u)
      BY <1>1, <1>2, <3>3 DEF Drop, MutexType
    <3> QED
      BY <3>1, <3>2, <3>3
  <2> QED
    BY <2>1 DEF Outside, Within, Emptying
<1>3. CASE u = t
  <2> DEFINE todo == spin[t].todo
             h == Head(todo)
             q == Tail(todo)
  <2>1. spin[t].at \in {"fetch", "undo", "drop"}
    BY <1>3 DEF FetchAndAdd, Undo, Drop
  <2>2. todo \in Seq(Slot) /\ todo # <<>>
    BY <1>1, <2>1 DEF MutexType
  <2>3. /\ h = todo[1] /\ q \in Seq(Slot) /\ 1 \in DOMAIN todo
        /\ \A i \in DOMAIN q : i + 1 \in DOMAIN todo /\ q[i] = todo[i + 1]
        /\ \A i \in DOMAIN todo : i = 1 \/ (i - 1 \in DOMAIN q /\ q[i - 1] = todo[i])
    BY <2>2
  <2> HIDE DEF h, q, todo
  <2>4. CASE Undo(t)
    <3>1. /\ spin'[t].at = "fetch" /\ spin'[t].todo = todo /\ held'[t] = held[t]
          /\ spin[t].at = "undo"
      BY <1>1, <2>4 DEF Undo, MutexType, todo
    <3> QED
      BY <3>1 DEF Outside, Within, Emptying, todo
  <2>5. CASE FetchAndAdd(t)
    <3>1. /\ \/ spin'[t] = At("fetch", q) /\ held'[t] = held[t] \cup {h}
             \/ spin'[t] = At("undo", todo) /\ held'[t] = held[t]
          /\ spin[t].at = "fetch"
      BY <1>1, <2>5 DEF FetchAndAdd, MutexType, h, q, todo
    <3>2. ~Emptying(t)
      BY <3>1 DEF Emptying
    <3>3. CASE spin'[t] = At("fetch", q) /\ held'[t] = held[t] \cup {h}
      <4>1. spin'[t].todo = q
        BY <3>3, Listed
      <4>2. ASSUME NEW S, Within(t, S) PROVE Within(t, S)'
        <5>1. \A i \in DOMAIN todo : todo[i] \in S
          BY <3>1, <4>2 DEF Within, todo
        <5>2. h \in S /\ \A i \in DOMAIN q : q[i] \in S
          BY <2>3, <5>1
        <5> QED
          BY <3>3, <4>1, <4>2, <5>2 DEF Within
      <4> QED
        BY <3>2, <4>2
    <3>4. CASE spin'[t] = At("undo", todo) /\ held'[t] = held[t]
      <4>1. spin'[t].todo = todo
        BY <3>4, Listed
      <4> QED
        BY <3>1, <3>2, <3>4, <4>1 DEF Within, todo
    <3> QED
      BY <3>1, <3>3, <3>4
  <2>6. CASE Drop(t)
    <3>1. spin'[t] = At("drop", q) /\ held'[t] = held[t] \ {h} /\ spin[t].at = "drop"
      BY <1>1, <2>6 DEF Drop, MutexType, h, q, todo
    <3>2. /\ spin'[t].todo = q /\ spin'[t].at \in {"out", "drop"}
          /\ q # <<>> => spin'[t].at = "drop"
      BY <3>1, Listed
    <3>3. ASSUME NEW S, Within(t, S) PROVE Within(t, S)'
      BY <3>1, <3>2, <3>3 DEF Within
    <3>4. ASSUME Emptying(t), NEW s \in held'[t]
          PROVE  spin'[t].at = "drop" /\ \E i \in DOMAIN q : q[i] = s
      <4>1. PICK i \in DOMAIN todo : todo[i] = s
        BY <3>1, <3>4 DEF Emptying, todo
      <4>2. i - 1 \in DOMAIN q /\ q[i - 1] = s
        BY <2>3, <3>1, <3>4, <4>1
      <4>3. q # <<>>
        BY <4>2, Listed
      <4> QED
        BY <3>2, <4>2, <4>3
    <3>5. Emptying(t) => Emptying(t)'
      BY <3>2, <3>4 DEF Emptying
    <3> QED
      BY <3>1, <3>3, <3>5 DEF Outside
  <2> QED
    BY <1>3, <2>4, <2>5, <2>6
<1> QED
  BY <1>2, <1>3

LEMMA KeepUserLeaves ==
  ASSUME NEW q \in Rank, UserLeaves(q), job' = job, pos'[q] = pos[q], pc'[q] = pc[q],
         suspended'[q] = suspended[q],
         \A S : Within(User(q), S) => Within(User(q), S)',
         Emptying(User(q)) => Emptying(User(q))' /\ (Outside(User(q)) => Outside(User(q))')
  PROVE  UserLeaves(q)'
<1>1. Asked(q)' = Asked(q) /\ User(q)' = User(q) /\ Call(q)' = Call(q)
  BY SameCall DEF Asked, User
<1>2. Within(User(q), Asked(q)) => Within(User(q), Asked(q))'
  BY <1>1 DEF Within
<1> QED
  BY <1>1, <1>2 DEF UserLeaves

LEMMA KeepBackgroundLeaves ==
  ASSUME NEW q \in Rank, BackgroundLeaves(q), bg'[q] = bg[q],
         bg[q].at # "idle" => Operation(q)' = Operation(q),
         \A S : Within(Background(q), S) => Within(Background(q), S)',
         Emptying(Background(q)) => /\ Emptying(Background(q))'
                                    /\ Outside(Background(q)) => Outside(Background(q))'
  PROVE  BackgroundLeaves(q)'
<1>1. /\ bg[q].at # "idle" => AskedAt(q)' = AskedAt(q)
      /\ Background(q)' = Background(q)
  BY DEF AskedAt, SlotAt, Background
<1>2. bg[q].at # "idle" /\ Within(Background(q), AskedAt(q))
         => Within(Background(q), AskedAt(q))'
  BY <1>1 DEF Within
<1> QED
  BY <1>1, <1>2 DEF BackgroundLeaves

LEMMA SameLeaves ==
  ASSUME NEW t \in Thread, spin'[t] = spin[t], held'[t] = held[t]
  PROVE  /\ \A S : Within(t, S) => Within(t, S)'
         /\ Emptying(t) => Emptying(t)' /\ (Outside(t) => Outside(t)')
BY DEF Within, Emptying, Outside

\* The mutexes of an update, and those of a transfer, exist.
LEMMA AskedSlots ==
  ASSUME VersionInv, NEW r \in Rank
  PROVE  /\ Call(r).name \in win_map[r] => Call(r).name \in Name
         /\ UpdateArgs(r).ok => DOMAIN UpdateArgs(r).weights \subseteq Rank
         /\ bg[r].at \in {"lock", "transfer", "version", "p"} =>
               SlotAt(r) \in Slot /\ <<SlotAt(r)>> \in Seq(Slot)
<1>1. Types /\ RunningInv(r)
  BY DEF VersionInv, WinInv, RankInv
<1>2. Call(r).name \in win_map[r] => Call(r).name \in Name
  BY <1>1 DEF Types
<1>3. ASSUME UpdateArgs(r).ok PROVE DOMAIN UpdateArgs(r).weights \subseteq Rank
  <2>1. in_neighbor_ranks(r) \subseteq Rank
    BY PeersRange
  <2>2. DOMAIN UpdateArgs(r).weights \subseteq in_neighbor_ranks(r)
    <3>1. CASE Call(r).op = "collect"
      BY <3>1 DEF UpdateArgs
    <3>2. CASE Call(r).op # "collect" /\ {"self_weight", "weights"} \cap Call(r).has # {}
      BY <1>3, <3>2 DEF UpdateArgs
    <3>3. CASE /\ Call(r).op # "collect" /\ {"self_weight", "weights"} \cap Call(r).has = {}
               /\ TopoWeighted
      BY <3>3 DEF UpdateArgs, GetRecvWeights, in_neighbor_ranks
    <3>4. CASE /\ Call(r).op # "collect" /\ {"self_weight", "weights"} \cap Call(r).has = {}
               /\ ~TopoWeighted
      BY <3>4 DEF UpdateArgs
    <3> QED
      BY <3>1, <3>2, <3>3, <3>4
  <2> QED
    BY <2>1, <2>2
<1>4. ASSUME bg[r].at \in {"lock", "transfer", "version", "p"}
      PROVE  SlotAt(r) \in Slot /\ <<SlotAt(r)>> \in Seq(Slot)
  <2>1. /\ Operation(r).call.name \in windows[r] /\ windows[r] \subseteq Name
        /\ bg[r].ranks # <<>> /\ bg[r].ranks \in Seq(Rank)
    BY <1>1, <1>4 DEF RunningInv, Types
  <2>2. Head(bg[r].ranks) \in Rank
    BY <2>1
  <2>3. SlotAt(r) \in Slot
    BY <2>1, <2>2 DEF SlotAt, Slot
  <2> QED
    BY <2>3
<1> QED
  BY <1>2, <1>3, <1>4

\* A step of a user thread takes or gives back as MutexNext says, and its rank leaves nothing.
LEMMA UserLeavesStep ==
  ASSUME VersionInv, LeaveInv, WithoutBlocks, NEW r \in Rank, UserThread(r)
  PROVE  [MutexNext]_mutexVars /\ UserLeaves(r)'
<1>1. WinInv /\ Types /\ MutexType /\ RankInv(r) /\ UserLeaves(r) /\ UserHolds(r)
  BY DEF VersionInv, WinInv, MutexInv, LeaveInv, HoldInv
<1>2. User(r) \in Thread /\ User(r)' = User(r) /\ DOMAIN pc = Rank /\ DOMAIN spin = Thread
  BY <1>1, ThreadsDiffer DEF User, Types, MutexType
<1>3. job' = job /\ held' = held
  BY UserEffects
<1>4. PICK where : InCall(r, where)
  BY DEF UserThread, WinCreate, WinFree, WinCreated, WinCommunicate, WinWait, WinWaited,
         WinUpdate, WindowSync, Average, Reset, EnterMutex, ExitMutex, SetAssociatedP,
         SetSuspended, Calls, Updates
<1>5. Outside(User(r)) /\ ~Ended(r)
  BY <1>4 DEF InCall
<1>6. CASE UNCHANGED mutexVars /\ pc[r] \notin {"sync", "average", "reset"}
           /\ pc'[r] \notin {"sync", "average", "reset"}
  <2>1. Emptying(User(r))
    BY <1>1, <1>6 DEF UserLeaves
  <2> QED
    BY <1>2, <1>5, <1>6, <2>1 DEF UserLeaves, Emptying, Outside, mutexVars
<1>7. CASE WinUpdate(r)
  <2>1. pc[r] = "run" /\ Emptying(User(r)) /\ held[User(r)] = {}
    BY <1>1, <1>5, <1>7 DEF WinUpdate, Updates, InCall, UserLeaves, Emptying, Outside
  <2>2. CASE Return(r) /\ UNCHANGED mutexVars
    BY <1>2, <1>6, <2>1, <2>2 DEF Return
  <2>3. CASE /\ Call(r).name \in win_map[r] /\ UpdateArgs(r).ok /\ GoTo(r, "sync")
             /\ Call(r).mutex /\ ~suspended[r]
             /\ \E q \in OwnSlots(r, Call(r).name, DOMAIN UpdateArgs(r).weights) :
                   BeginAcquire(User(r), q)
    <3> DEFINE n == Call(r).name
               S == DOMAIN UpdateArgs(r).weights
    <3>1. n \in Name /\ S \subseteq Rank
      BY <2>3, AskedSlots
    <3>2. PICK q \in OwnSlots(r, n, S) : BeginAcquire(User(r), q)
      BY <2>3
    <3> HIDE DEF n, S
    <3>3. q \in Seq(Slot) /\ \A i \in DOMAIN q : q[i] \in {<<n, r, s>> : s \in S}
      BY <3>1, ListedOnce
    <3>4. MutexNext
      BY <1>2, <3>2, <3>3 DEF MutexNext, WithoutBlocks
    <3>5. spin'[User(r)] = At("fetch", q)
      BY <1>2, <3>2 DEF BeginAcquire
    <3>6. spin'[User(r)].todo = q
      BY <3>5, Listed
    <3>7. Asked(r)' = {<<n, r, s>> : s \in S}
      <4>1. Call(r)' = Call(r) /\ UpdateArgs(r)' = UpdateArgs(r)
        BY <1>3, <2>3, SameCall DEF GoTo
      <4>2. suspended' = suspended
        BY <1>7 DEF WinUpdate, UpdateStep
      <4> QED
        BY <2>3, <4>1, <4>2 DEF Asked, n, S
    <3>8. Within(User(r), Asked(r))'
      BY <1>2, <1>3, <2>1, <3>3, <3>6, <3>7 DEF Within
    <3>9. pc'[r] = "sync"
      BY <1>2, <2>3 DEF GoTo
    <3>10. Call(r)'.name \in Name
      BY <1>3, <2>3, <3>1, SameCall DEF GoTo, n
    <3> QED
      BY <3>4, <3>8, <3>9, <3>10 DEF UserLeaves
  <2>4. CASE Call(r).name \in win_map[r] /\ GoTo(r, "sync") /\ UNCHANGED mutexVars
    <3>1. pc'[r] = "sync" /\ spin' = spin
      BY <1>2, <2>4 DEF GoTo, mutexVars
    <3>2. Within(User(r), Asked(r))'
      BY <1>2, <1>3, <1>5, <2>1, <3>1 DEF Within, Outside
    <3>3. Call(r)'.name \in Name
      BY <1>3, <2>4, AskedSlots, SameCall DEF GoTo
    <3> QED
      BY <2>4, <3>1, <3>2, <3>3 DEF UserLeaves
  <2> QED
    BY <1>7, <2>2, <2>3, <2>4 DEF WinUpdate
<1>8. CASE WindowSync(r) \/ (Average(r) /\ ~(with_p[r] /\ suspended[r]))
  <2>1. /\ UNCHANGED mutexVars /\ pos' = pos /\ pc[r] \in {"sync", "average"}
        /\ pc'[r] \in {"average", "reset"} /\ suspended' = suspended
    BY <1>2, <1>8 DEF WindowSync, Average, GoTo, Updates, InCall, UpdateStep
  <2>2. Asked(r)' = Asked(r) /\ Call(r)' = Call(r)
    BY <1>3, <2>1, SameCall DEF Asked
  <2>3. Within(User(r), Asked(r)) /\ Call(r).name \in Name
    BY <1>1, <2>1 DEF UserLeaves
  <2> QED
    BY <1>2, <2>1, <2>2, <2>3 DEF UserLeaves, Within, mutexVars
<1>12. CASE Average(r) /\ with_p[r] /\ suspended[r]
  <2>1. UNCHANGED mutexVars /\ pc[r] = "average" /\ pc'[r] = "run"
    BY <1>2, <1>12 DEF Average, Return, Updates, InCall
  <2>2. held[User(r)] = {}
    BY <1>1, <1>12, <2>1 DEF UserLeaves, Within, Asked
  <2> QED
    BY <1>2, <1>5, <2>1, <2>2 DEF UserLeaves, Emptying, Outside, mutexVars
<1>9. CASE Reset(r)
  <2> DEFINE n == Call(r).name
             S == DOMAIN UpdateArgs(r).weights
  <2>1. /\ pc[r] = "reset" /\ pc'[r] = "run"
        /\ \E q \in OwnSlots(r, n, S) :
              ReleaseIf(Call(r).mutex /\ ~suspended[r], User(r), q)
    BY <1>2, <1>9 DEF Reset, Updates, InCall, Return
  <2>2. Within(User(r), Asked(r)) /\ n \in Name
    BY <1>1, <2>1 DEF UserLeaves
  <2>3. CASE ~(Call(r).mutex /\ ~suspended[r])
    <3>1. UNCHANGED mutexVars
      BY <2>1, <2>3 DEF ReleaseIf
    <3>2. held[User(r)] = {}
      BY <2>2, <2>3 DEF Within, Asked
    <3> QED
      BY <1>2, <1>5, <2>1, <3>1, <3>2 DEF UserLeaves, Emptying, Outside, mutexVars
  <2>4. CASE Call(r).mutex /\ ~suspended[r]
    <3>1. PICK q \in OwnSlots(r, n, S) : BeginRelease(User(r), q)
      BY <2>1, <2>4 DEF ReleaseIf
    <3>2. S \subseteq Rank
      <4>1. UpdateArgs(r).ok
        BY <1>1, <2>1 DEF RankInv, CallInv
      <4> QED
        BY <4>1, AskedSlots
    <3>3. \A s \in S : <<n, r, s>> \in held[User(r)]
      BY <1>1, <1>5, <2>1, <2>4 DEF UserHolds, Claimed, Outside
    <3>4. held[User(r)] \subseteq {<<n, r, s>> : s \in S}
      BY <2>2, <2>4 DEF Within, Asked
    <3> HIDE DEF n, S
    <3>5. /\ q \in Seq(Slot)
          /\ \A i, j \in DOMAIN q : q[i] = q[j] => i = j
          /\ \A i \in DOMAIN q : q[i] \in {<<n, r, s>> : s \in S}
          /\ \A s \in S : \E i \in DOMAIN q : q[i] = <<n, r, s>>
      BY <2>2, <3>2, ListedOnce
    <3>6. Owns(User(r), q)
      BY <3>3, <3>5 DEF Owns
    <3>7. MutexNext
      BY <1>2, <3>1, <3>5, <3>6 DEF MutexNext, WithoutBlocks
    <3>8. spin'[User(r)] = At("drop", q)
      BY <1>2, <3>1 DEF BeginRelease
    <3>9. /\ spin'[User(r)].todo = q /\ spin'[User(r)].at \in {"out", "drop"}
          /\ q # <<>> => spin'[User(r)].at = "drop"
      BY <3>8, Listed
    <3>10. ASSUME NEW x \in held[User(r)]
           PROVE  spin'[User(r)].at = "drop" /\ \E i \in DOMAIN q : q[i] = x
      <4>1. PICK i \in DOMAIN q : q[i] = x
        BY <3>4, <3>5
      <4>2. q # <<>>
        BY <4>1, Listed
      <4> QED
        BY <3>9, <4>1, <4>2
    <3>11. Emptying(User(r))'
      BY <1>2, <1>3, <3>9, <3>10 DEF Emptying
    <3> QED
      BY <2>1, <3>7, <3>11 DEF UserLeaves
  <2> QED
    BY <2>3, <2>4
<1>10. ~EnterMutex(r) /\ ~ExitMutex(r)
  <2>1. job \in Jobs /\ pos[r] \in DOMAIN job[r]
    BY <1>1, <1>5, AtCall DEF Types
  <2>2. Call(r).op \notin {"enter", "exit"}
    BY <2>1 DEF WithoutBlocks, Call
  <2> QED
    BY <2>2 DEF EnterMutex, ExitMutex, Calls
<1>11. CASE /\ UserThread(r)
            /\ ~WinUpdate(r) /\ ~WindowSync(r) /\ ~Average(r) /\ ~Reset(r)
  <2>1. UNCHANGED mutexVars
    BY <1>10, <1>11 DEF UserThread, WinCreate, WinFree, WinCreated, WinCommunicate, WinWait,
                        WinWaited, SetAssociatedP, SetSuspended
  <2>2. pc[r] \notin {"sync", "average", "reset"}
    BY <1>10, <1>11 DEF UserThread, WinCreate, WinFree, WinCreated, WinCommunicate, WinWait,
                        WinWaited, SetAssociatedP, SetSuspended, Calls, InCall
  <2>3. pc'[r] \notin {"sync", "average", "reset"}
    BY <1>11, UserEffects
  <2> QED
    BY <1>6, <2>1, <2>2, <2>3
<1> QED
  BY <1>7, <1>8, <1>9, <1>11, <1>12

LEMMA BackgroundLeavesStep ==
  ASSUME VersionInv, LeaveInv, WithoutBlocks, NEW r \in Rank, BackgroundThread(r)
  PROVE  [MutexNext]_mutexVars /\ BackgroundLeaves(r)'
<1>1. WinInv /\ Types /\ MutexType /\ BackgroundLeaves(r) /\ BackgroundHolds(r)
  BY DEF VersionInv, WinInv, MutexInv, LeaveInv, HoldInv
<1>2. /\ Background(r) \in Thread /\ Background(r)' = Background(r)
      /\ DOMAIN bg = Rank /\ DOMAIN spin = Thread
  BY <1>1, ThreadsDiffer DEF Background, Types, MutexType
<1>3. held' = held
  BY BackgroundEffects
<1>4. PICK where : Running(r, where)
  BY DEF BackgroundThread, StartOperation, LockTarget, Transfer, UpdateVersion, TransferP,
         Callback
<1>5. Outside(Background(r)) /\ bg[r].at = where
  BY <1>4 DEF Running
<1>6. CASE LockTarget(r)
  <2>1. bg[r].at = "lock" /\ bg'[r].at = "transfer" /\ bg'[r].ranks = bg[r].ranks
    BY <1>1, <1>6, SameRank DEF LockTarget, Running
  <2>2. held[Background(r)] = {}
    BY <1>1, <1>5, <2>1 DEF BackgroundLeaves, Emptying, Outside
  <2>3. AskedAt(r)' = AskedAt(r)
    BY <1>6, <2>1 DEF LockTarget, AskedAt, SlotAt, Operation
  <2>4. CASE ~Operation(r).call.mutex
    <3>1. UNCHANGED mutexVars
      BY <1>6, <2>4 DEF LockTarget
    <3> QED
      BY <1>2, <1>5, <2>1, <2>2, <3>1 DEF BackgroundLeaves, Within, Outside, mutexVars
  <2>5. CASE Operation(r).call.mutex
    <3> DEFINE q == <<SlotAt(r)>>
    <3>1. BeginAcquire(Background(r), q)
      BY <1>6, <2>5 DEF LockTarget
    <3>2. q \in Seq(Slot)
      BY <2>1, AskedSlots
    <3>3. \A i \in DOMAIN q : q[i] \in AskedAt(r)
      BY <2>5 DEF AskedAt
    <3> HIDE DEF q
    <3>4. MutexNext
      BY <1>2, <3>1, <3>2 DEF MutexNext, WithoutBlocks
    <3>5. spin'[Background(r)].todo = q
      BY <1>2, <3>1, Listed DEF BeginAcquire
    <3>6. Within(Background(r), AskedAt(r))'
      BY <1>2, <1>3, <2>2, <2>3, <3>3, <3>5 DEF Within
    <3> QED
      BY <2>1, <3>4, <3>6 DEF BackgroundLeaves
  <2> QED
    BY <2>4, <2>5
<1>7. CASE Transfer(r) \/ UpdateVersion(r)
  <2>1. /\ UNCHANGED mutexVars /\ bg[r].at \in {"transfer", "version"}
        /\ Operation(r)' = Operation(r)
    BY <1>7 DEF Transfer, UpdateVersion, Running, Operation
  <2>2. bg'[r].at \in {"version", "p"} /\ bg'[r].ranks = bg[r].ranks
    BY <1>1, <1>7, SameRank DEF Transfer, UpdateVersion
  <2>3. AskedAt(r)' = AskedAt(r)
    BY <2>1, <2>2 DEF AskedAt, SlotAt
  <2>4. Within(Background(r), AskedAt(r))
    BY <1>1, <2>1 DEF BackgroundLeaves
  <2> QED
    BY <1>2, <2>1, <2>2, <2>3, <2>4 DEF BackgroundLeaves, Within, mutexVars
<1>8. CASE TransferP(r)
  <2> DEFINE q == <<SlotAt(r)>>
  <2>1. /\ bg[r].at = "p" /\ ReleaseIf(Operation(r).call.mutex, Background(r), q)
        /\ bg'[r].at \in {"lock", "callback"}
    BY <1>2, <1>8 DEF TransferP, Running, NextRank
  <2>2. Within(Background(r), AskedAt(r))
    BY <1>1, <2>1 DEF BackgroundLeaves
  <2>3. CASE ~Operation(r).call.mutex
    <3>1. UNCHANGED mutexVars
      BY <2>1, <2>3 DEF ReleaseIf
    <3>2. held[Background(r)] = {}
      BY <2>2, <2>3 DEF Within, AskedAt
    <3> QED
      BY <1>2, <1>5, <2>1, <3>1, <3>2 DEF BackgroundLeaves, Emptying, Outside, mutexVars
  <2>4. CASE Operation(r).call.mutex
    <3>1. BeginRelease(Background(r), q)
      BY <2>1, <2>4 DEF ReleaseIf
    <3>2. q \in Seq(Slot)
      BY <2>1, AskedSlots
    <3>3. SlotAt(r) \in held[Background(r)]
      BY <1>1, <1>5, <2>1, <2>4 DEF BackgroundHolds, Claimed, Outside
    <3>4. held[Background(r)] \subseteq {SlotAt(r)}
      BY <2>2, <2>4 DEF Within, AskedAt
    <3>5. Owns(Background(r), q)
      BY <3>3 DEF Owns
    <3>6. 1 \in DOMAIN q /\ q[1] = SlotAt(r) /\ q # <<>>
      OBVIOUS
    <3> HIDE DEF q
    <3>7. MutexNext
      BY <1>2, <3>1, <3>2, <3>5 DEF MutexNext, WithoutBlocks
    <3>8. spin'[Background(r)].todo = q /\ spin'[Background(r)].at = "drop"
      BY <1>2, <3>1, <3>6, Listed DEF BeginRelease
    <3>9. Emptying(Background(r))'
      BY <1>2, <1>3, <3>4, <3>6, <3>8 DEF Emptying
    <3> QED
      BY <2>1, <3>7, <3>9 DEF BackgroundLeaves
  <2> QED
    BY <2>3, <2>4
<1>9. CASE StartOperation(r) \/ Callback(r)
  <2>1. UNCHANGED mutexVars /\ bg[r].at \in {"idle", "callback"}
    BY <1>9 DEF StartOperation, Callback, Running
  <2>2. Emptying(Background(r))
    BY <1>1, <2>1 DEF BackgroundLeaves
  <2>3. bg'[r].at \notin {"transfer", "version", "p"}
    <3>1. CASE bg' = bg
      BY <2>1, <3>1
    <3>2. ASSUME NEW ranks, NextRank(r, ranks) PROVE bg'[r].at \notin {"transfer", "version", "p"}
      BY <1>2, <3>2 DEF NextRank
    <3>3. CASE bg' = [bg EXCEPT ![r] = NoOperation]
      BY <1>2, <3>3 DEF NoOperation
    <3> QED
      BY <1>9, <3>1, <3>2, <3>3 DEF StartOperation, Callback
  <2> QED
    BY <1>2, <1>5, <2>1, <2>2, <2>3 DEF BackgroundLeaves, Emptying, Outside, mutexVars
<1> QED
  BY <1>6, <1>7, <1>8, <1>9 DEF BackgroundThread

\* When all ranks create a window, nobody has a mutex: new memory forgets none.
LEMMA NothingHeld ==
  ASSUME VersionInv, LeaveInv, Everyone("create")
  PROVE  \A s \in Slot : mutex[s] = 0
<1>1. ASSUME NEW t \in Thread PROVE Outside(t) /\ held[t] = {}
  <2>1. PICK r \in Rank : t = User(r) \/ t = Background(r)
    BY <1>1 DEF Thread, User, Background
  <2>2. pc[r] = "blocked" /\ bg[r].at = "idle"
    BY AllWait DEF VersionInv
  <2>3. UserLeaves(r) /\ BackgroundLeaves(r)
    BY DEF LeaveInv
  <2>4. Emptying(t) /\ Outside(t)
    BY <2>1, <2>2, <2>3 DEF UserLeaves, BackgroundLeaves
  <2> QED
    BY <2>4 DEF Emptying, Outside
<1> QED
  BY <1>1, NobodyCounts DEF VersionInv, MutexInv

LEMMA LeaveStep ==
  ASSUME VersionInv, LeaveInv, WithoutBlocks, [Next]_vars
  PROVE  LeaveInv' /\ [MutexNext]_mutexVars
<1>1. MutexInv /\ MutexType
  BY DEF VersionInv, MutexInv
<1>2. ASSUME NEW q \in Rank
      PROVE  /\ UserLeaves(q) /\ BackgroundLeaves(q)
             /\ User(q) \in Thread /\ Background(q) \in Thread
  BY ThreadsDiffer DEF LeaveInv
<1>3. ASSUME NEW r \in Rank, UserThread(r) PROVE LeaveInv' /\ [MutexNext]_mutexVars
  <2>1. /\ job' = job /\ bg' = bg /\ held' = held
        /\ \A q \in Rank : q # r =>
              pos'[q] = pos[q] /\ pc'[q] = pc[q] /\ suspended'[q] = suspended[q]
        /\ \A q \in Rank : bg[q].at # "idle" => Operation(q)' = Operation(q)
        /\ \A t \in Thread : t # User(r) => spin'[t] = spin[t]
    BY <1>3, UserEffects
  <2>2. ASSUME NEW q \in Rank, q # r PROVE UserLeaves(q)'
    <3>1. User(q) # User(r)
      BY <2>2, ThreadsDiffer
    <3>2. spin'[User(q)] = spin[User(q)] /\ held'[User(q)] = held[User(q)]
      BY <1>2, <2>1, <3>1
    <3> QED
      BY <1>2, <2>1, <2>2, <3>2, SameLeaves, KeepUserLeaves
  <2>3. ASSUME NEW q \in Rank PROVE BackgroundLeaves(q)'
    <3>1. Background(q) # User(r)
      BY ThreadsDiffer
    <3>2. spin'[Background(q)] = spin[Background(q)] /\ held'[Background(q)] = held[Background(q)]
      BY <1>2, <2>1, <3>1
    <3> QED
      BY <1>2, <2>1, <3>2, SameLeaves, KeepBackgroundLeaves
  <2> QED
    BY <1>3, <2>2, <2>3, UserLeavesStep DEF LeaveInv
<1>4. ASSUME NEW r \in Rank, BackgroundThread(r) PROVE LeaveInv' /\ [MutexNext]_mutexVars
  <2>1. /\ job' = job /\ pos' = pos /\ pc' = pc /\ held' = held /\ suspended' = suspended
        /\ \A q \in Rank : q # r => bg'[q] = bg[q] /\ Operation(q)' = Operation(q)
        /\ \A t \in Thread : t # Background(r) => spin'[t] = spin[t]
    BY <1>4, BackgroundEffects
  <2>2. ASSUME NEW q \in Rank PROVE UserLeaves(q)'
    <3>1. User(q) # Background(r)
      BY ThreadsDiffer
    <3>2. spin'[User(q)] = spin[User(q)] /\ held'[User(q)] = held[User(q)]
      BY <1>2, <2>1, <3>1
    <3> QED
      BY <1>2, <2>1, <3>2, SameLeaves, KeepUserLeaves
  <2>3. ASSUME NEW q \in Rank, q # r PROVE BackgroundLeaves(q)'
    <3>1. Background(q) # Background(r)
      BY <2>3, ThreadsDiffer
    <3>2. spin'[Background(q)] = spin[Background(q)] /\ held'[Background(q)] = held[Background(q)]
      BY <1>2, <2>1, <3>1
    <3> QED
      BY <1>2, <2>1, <2>3, <3>2, SameLeaves, KeepBackgroundLeaves
  <2> QED
    BY <1>4, <2>2, <2>3, BackgroundLeavesStep DEF LeaveInv
<1>5. ASSUME NEW u \in Thread, Spin(u) PROVE LeaveInv' /\ [MutexNext]_mutexVars
  <2>1. /\ job' = job /\ pos' = pos /\ pc' = pc /\ suspended' = suspended
        /\ bg' = bg /\ queue' = queue
        /\ FetchAndAdd(u) \/ Undo(u) \/ Drop(u)
    BY <1>5 DEF Spin, python, library
  <2>2. ASSUME NEW q \in Rank PROVE UserLeaves(q)'
    <3>1. /\ UserLeaves(q) /\ User(q) \in Thread
          /\ pos'[q] = pos[q] /\ pc'[q] = pc[q] /\ job' = job /\ suspended'[q] = suspended[q]
      BY <1>2, <2>1
    <3> QED
      BY <1>1, <2>1, <3>1, SpinLeaves, KeepUserLeaves
  <2>3. ASSUME NEW q \in Rank PROVE BackgroundLeaves(q)'
    <3>1. Operation(q)' = Operation(q)
      BY <2>1 DEF Operation
    <3> QED
      BY <1>1, <1>2, <2>1, <3>1, SpinLeaves, KeepBackgroundLeaves
  <2> QED
    <3>1. MutexNext
      BY <2>1 DEF MutexNext
    <3> QED
      BY <2>2, <2>3, <3>1 DEF LeaveInv
<1>6. ASSUME /\ UNCHANGED <<job, pos, pc, suspended, bg, spin, held>>
             /\ \A q \in Rank : bg[q].at # "idle" => Operation(q)' = Operation(q)
      PROVE  LeaveInv'
  <2>1. ASSUME NEW q \in Rank PROVE UserLeaves(q)'
    BY <1>2, <1>6, SameLeaves, KeepUserLeaves
  <2>2. ASSUME NEW q \in Rank PROVE BackgroundLeaves(q)'
    <3>1. bg[q].at # "idle" => Operation(q)' = Operation(q)
      BY <1>6
    <3> QED
      BY <1>2, <1>6, <3>1, SameLeaves, KeepBackgroundLeaves
  <2> QED
    BY <2>1, <2>2 DEF LeaveInv
<1>7. CASE CreateWindows
  <2>1. UNCHANGED <<job, pos, pc, suspended, bg, spin, held>> /\ Everyone("create")
    BY <1>7 DEF CreateWindows, python
  <2>2. \A q \in Rank : bg[q].at = "idle"
    BY <2>1 DEF Everyone
  <2>3. \A s \in Slot : mutex[s] = 0
    BY <2>1, NothingHeld
  <2>4. mutex' \in [Slot -> Int] /\ \A s \in Slot : mutex'[s] = 0
    BY <1>7, <2>3 DEF CreateWindows
  <2>5. mutex' = mutex
    BY <1>1, <2>3, <2>4 DEF MutexType
  <2> QED
    BY <1>6, <2>1, <2>2, <2>5 DEF mutexVars
<1>8. CASE FreeWindows
  <2>1. UNCHANGED <<job, pos, pc, suspended, bg, spin, held, mutex>>
    BY <1>8 DEF FreeWindows, python, mutexVars
  <2>2. \A q \in Rank : bg[q].at = "idle"
    BY <1>8 DEF FreeWindows, Everyone
  <2> QED
    BY <1>6, <2>1, <2>2 DEF mutexVars
<1>9. CASE UNCHANGED vars
  <2>1. UNCHANGED <<job, pos, pc, suspended, bg, spin, held, queue, mutex>>
    BY <1>9 DEF vars, python, library, mutexVars
  <2> QED
    BY <1>6, <2>1 DEF Operation, mutexVars
<1> QED
  BY <1>3, <1>4, <1>5, <1>7, <1>8, <1>9 DEF Next

LEMMA LeaveInit == Init => LeaveInv
<1> SUFFICES ASSUME Init, NEW r \in Rank PROVE UserLeaves(r) /\ BackgroundLeaves(r)
  BY DEF LeaveInv
<1>1. pc[r] = "run" /\ bg[r].at = "idle"
  BY DEF Init, NoOperation
<1>2. /\ spin[User(r)].at = "out" /\ held[User(r)] = {}
      /\ spin[Background(r)].at = "out" /\ held[Background(r)] = {}
  BY ThreadsDiffer DEF Init, MutexInit, At
<1> QED
  BY <1>1, <1>2 DEF UserLeaves, BackgroundLeaves, Emptying, Outside

LEMMA LeaveAlways ==
  ASSUME WithoutBlocks
  PROVE  Spec => [](VersionInv /\ LeaveInv) /\ [][MutexNext]_mutexVars
<1>1. Init => VersionInv /\ LeaveInv
  BY VersionInvInit, LeaveInit
<1>2. VersionInv /\ LeaveInv /\ [Next]_vars => [MutexNext]_mutexVars
  BY LeaveStep
<1>3. VersionInv /\ LeaveInv /\ [Next]_vars => (VersionInv /\ LeaveInv)'
  BY LeaveStep, VersionInvStep
<1> QED
  BY <1>1, <1>2, <1>3, PTL DEF Spec

\* When the mutexes are left to the operations that are called with require_mutex, the threads
\* of all ranks take and give back as MutexSpec says: win_update and the transfers release what
\* they acquired (DoWinSync, mpi_win_ops.cc:345-426; WinPut and WinAccumulate,
\* mpi_controller.cc:953-1121), and no window is created while a mutex is held.
THEOREM MutexUsed == ASSUME WithoutBlocks PROVE Spec => UsesMutex
<1>1. Init => MutexInit
  BY DEF Init
<1> QED
  BY <1>1, LeaveAlways, PTL DEF Spec, UsesMutex, MutexSpec

\* For such scripts a version says whether the buffer was read with no further hypothesis.
THEOREM VersionsWithoutBlocks == ASSUME WithoutBlocks PROVE Spec => []VersionsMeanFresh
BY MutexUsed, VersionsCorrect, PTL
=============================================================================
