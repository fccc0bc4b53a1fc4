--------------------------- MODULE JobRecord_proofs ---------------------------
(***************************************************************************)
(* Proofs about JobRecord, for any number of replicas and runs and any     *)
(* limits.                                                                 *)
(*                                                                         *)
(* NoLostUpdate holds because a patch is applied only to the record that   *)
(* was read: the version of the record is the number of runs added, and a  *)
(* request that holds the current version holds the current record         *)
(* (RequestsOK).  The runs that were added have all ended, so the counts   *)
(* in the summary cannot change under it.                                  *)
(***************************************************************************)
EXTENDS JobRecord, FiniteSetTheorems, SequenceTheorems, TLAPS

\* The positions of a at which there is a member of T.
Index(a, T) == {i \in 1..Len(a) : a[i] \in T}

RunsIn(ap, state) == {r \in Runs : ap[r].state = state}

\* What the record says of the runs that were added.
RecordOK(rec, a, ap) ==
    /\ rec = None => a = <<>>
    /\ rec # None =>
         /\ rec.version = Len(a)
         /\ rec.runs = apply_history_limit(a)
         /\ rec.summary = [totalRuns |-> Len(a),
                           successfulRuns |-> Cardinality(Index(a, RunsIn(ap, "Completed"))),
                           failedRuns |-> Cardinality(Index(a, RunsIn(ap, "Failed")))]

\* What a request knows of the record, of the runs added and of the applications.
RequestOK(q, rec, a, ap) ==
    /\ IF q.pc = "idle" THEN q = Idle ELSE q.run # None /\ q.attempt # 0
    /\ q.pc = "patch" <=> q.seen # None
    /\ q.pc # "idle" => ap[q.run].state \in TerminalStates
    /\ q.pc = "patch" =>
         /\ rec # None
         /\ q.seen.version <= rec.version
         /\ q.seen.version = rec.version => q.seen = rec
         /\ q.run \notin Range(q.seen.runs)
    /\ q.pc = "annotate" => q.run \in Range(a)

Distinct(s) == \A i, j \in 1..Len(s) : s[i] = s[j] => i = j

IInv ==
    /\ app \in [Runs -> [state: States, recorded: BOOLEAN]]
    /\ record \in Records \cup {None}
    /\ request \in [Replicas -> Requests]
    /\ added \in Seq(Runs) /\ Len(added) <= MaxAdded
    /\ failures \in 0..MaxFailures
    /\ RecordOK(record, added, app)
    /\ \A i \in 1..Len(added) : app[added[i]].state \in TerminalStates
    /\ \A f \in Replicas : RequestOK(request[f], record, added, app)
    /\ record # None => Distinct(record.runs)
    /\ \A r \in Runs : app[r].recorded => r \in Range(added)

-----------------------------------------------------------------------------
\* Counting the positions of a longer sequence.
LEMMA IndexFinite ==
  ASSUME NEW S, NEW a \in Seq(S), NEW T
  PROVE  /\ IsFiniteSet(Index(a, T))
         /\ Cardinality(Index(a, T)) \in 0..Len(a)
<1>1. Len(a) \in Nat BY LenProperties
<1>2. IsFiniteSet(1..Len(a)) /\ Cardinality(1..Len(a)) = Len(a)
  BY <1>1, FS_Interval, SMTT(60)
<1>3. Index(a, T) \subseteq 1..Len(a) BY DEF Index
<1>4. /\ IsFiniteSet(Index(a, T))
      /\ Cardinality(Index(a, T)) <= Cardinality(1..Len(a))
  BY <1>2, <1>3, FS_Subset
<1>5. Cardinality(Index(a, T)) \in Nat BY <1>4, FS_CardinalityType
<1> QED BY <1>1, <1>2, <1>4, <1>5

LEMMA IndexAppend ==
  ASSUME NEW S, NEW a \in Seq(S), NEW r \in S, NEW T
  PROVE  Cardinality(Index(Append(a, r), T)) =
           Cardinality(Index(a, T)) + (IF r \in T THEN 1 ELSE 0)
<1> DEFINE b == Append(a, r)
           n == Len(a) + 1
<1>1. Len(a) \in Nat BY LenProperties
<1>2. Len(b) = n /\ b[n] = r /\ \A i \in 1..Len(a) : b[i] = a[i]
  BY <1>1, AppendProperties
<1>3. IsFiniteSet(Index(a, T)) /\ Cardinality(Index(a, T)) \in Nat
  BY IndexFinite, FS_CardinalityType
<1>4. n \notin Index(a, T) BY <1>1 DEF Index
<1> HIDE DEF b
<1>5. CASE r \in T
  <2>1. Index(b, T) = Index(a, T) \cup {n} BY <1>1, <1>2, <1>5 DEF Index
  <2>2. Cardinality(Index(a, T) \cup {n}) = Cardinality(Index(a, T)) + 1
    BY <1>3, <1>4, FS_AddElement
  <2> QED BY <2>1, <2>2, <1>5 DEF b
<1>6. CASE r \notin T
  <2>1. Index(b, T) = Index(a, T) BY <1>1, <1>2, <1>6 DEF Index
  <2> QED BY <2>1, <1>3, <1>6 DEF b
<1> QED BY <1>5, <1>6

-----------------------------------------------------------------------------
\* What apply_history_limit keeps: the last HistoryLimit runs, in order.
LEMMA LimitProperties ==
  ASSUME NEW s \in Seq(Runs)
  PROVE  LET t == apply_history_limit(s)
             k == IF Len(s) <= HistoryLimit THEN 0 ELSE Len(s) - HistoryLimit
         IN  /\ t \in Seq(Runs)
             /\ Len(t) = Len(s) - k
             /\ \A i \in 1..Len(t) : t[i] = s[i + k]
<1> DEFINE t == apply_history_limit(s)
           k == IF Len(s) <= HistoryLimit THEN 0 ELSE Len(s) - HistoryLimit
<1> SUFFICES /\ t \in Seq(Runs)
             /\ Len(t) = Len(s) - k
             /\ \A i \in 1..Len(t) : t[i] = s[i + k]
  OBVIOUS
<1>1. Len(s) \in Nat /\ HistoryLimit \in Nat \ {0}
  BY LenProperties, LimitsAssumption
<1>2. CASE Len(s) <= HistoryLimit
  BY <1>1, <1>2 DEF apply_history_limit
<1>3. CASE Len(s) > HistoryLimit
  <2> DEFINE m == Len(s) - HistoryLimit + 1
  <2>1. t = SubSeq(s, m, Len(s)) BY <1>1, <1>3 DEF apply_history_limit
  <2>2. m \in 1..(Len(s) + 1) /\ Len(s) \in (m - 1)..Len(s) BY <1>1, <1>3
  <2>3. /\ SubSeq(s, m, Len(s)) \in Seq(Runs)
        /\ Len(SubSeq(s, m, Len(s))) = Len(s) - m + 1
        /\ \A i \in 1..(Len(s) - m + 1) : SubSeq(s, m, Len(s))[i] = s[m + i - 1]
    BY <1>1, <2>2, SubSeqProperties
  <2>4. Len(s) - m + 1 = Len(s) - k /\ \A i \in Int : m + i - 1 = i + k
    BY <1>1, <1>3
  <2>5. t \in Seq(Runs) /\ Len(t) = Len(s) - k
    BY <2>1, <2>3, <2>4
  <2>6. ASSUME NEW i \in 1..Len(t) PROVE t[i] = s[i + k]
    <3>1. i \in 1..(Len(s) - m + 1) /\ i \in Int
      BY <2>4, <2>5, <1>1
    <3> QED BY <3>1, <2>1, <2>3, <2>4
  <2> QED BY <2>5, <2>6
<1> QED BY <1>1, <1>2, <1>3

\* Limiting the history before a run is added to it changes nothing.
LEMMA LimitAppend ==
  ASSUME NEW s \in Seq(Runs), NEW r \in Runs
  PROVE  apply_history_limit(Append(apply_history_limit(s), r))
           = apply_history_limit(Append(s, r))
<1> DEFINE t == apply_history_limit(s)
           tr == Append(t, r)
           sr == Append(s, r)
           u == apply_history_limit(tr)
           v == apply_history_limit(sr)
           n == Len(s)
           H == HistoryLimit
           ks == IF n <= H THEN 0 ELSE n - H
           kt == IF Len(tr) <= H THEN 0 ELSE Len(tr) - H
           ka == IF Len(sr) <= H THEN 0 ELSE Len(sr) - H
<1>1. n \in Nat /\ H \in Nat \ {0}
  BY LenProperties, LimitsAssumption
<1>2. /\ t \in Seq(Runs) /\ Len(t) = n - ks
      /\ \A i \in 1..Len(t) : t[i] = s[i + ks]
  BY LimitProperties
<1>3. /\ tr \in Seq(Runs) /\ Len(tr) = Len(t) + 1
      /\ \A i \in 1..Len(t) : tr[i] = t[i]
      /\ tr[Len(t) + 1] = r
  BY <1>2, AppendProperties
<1>4. /\ sr \in Seq(Runs) /\ Len(sr) = n + 1
      /\ \A i \in 1..n : sr[i] = s[i]
      /\ sr[n + 1] = r
  BY AppendProperties
<1>5. /\ u \in Seq(Runs) /\ Len(u) = Len(tr) - kt
      /\ \A i \in 1..Len(u) : u[i] = tr[i + kt]
  BY <1>3, LimitProperties
<1>6. /\ v \in Seq(Runs) /\ Len(v) = Len(sr) - ka
      /\ \A i \in 1..Len(v) : v[i] = sr[i + ka]
  BY <1>4, LimitProperties
<1> HIDE DEF t, tr, sr, u, v, n, H
<1>7. \/ ks = 0 /\ Len(t) = n /\ kt = 0 /\ ka = 0
      \/ ks = n - H /\ Len(t) = H /\ kt = 1 /\ ka = n + 1 - H
  <2>1. CASE n < H BY <2>1, <1>1, <1>2, <1>3, <1>4
  <2>2. CASE n >= H BY <2>2, <1>1, <1>2, <1>3, <1>4
  <2> QED BY <2>1, <2>2, <1>1
<1> HIDE DEF ks, kt, ka
<1>8. Len(t) \in Nat BY <1>1, <1>7
<1>9. Len(u) = Len(v) /\ Len(u) = Len(t) + 1 - kt
  BY <1>1, <1>3, <1>4, <1>5, <1>6, <1>7
<1>10. ASSUME NEW i \in 1..Len(u) PROVE u[i] = v[i]
  <2>1. u[i] = tr[i + kt] /\ v[i] = sr[i + ka] BY <1>5, <1>6, <1>9
  <2>2. i + kt + ks = i + ka /\ i + kt \in 1..(Len(t) + 1)
    BY <1>1, <1>7, <1>8, <1>9, SMTT(60)
  <2>3. CASE i + kt = Len(t) + 1
    <3>1. i + ka = n + 1 BY <2>2, <2>3, <1>1, <1>7
    <3> QED BY <2>1, <2>3, <3>1, <1>3, <1>4
  <2>4. CASE i + kt # Len(t) + 1
    <3>1. i + kt \in 1..Len(t) /\ i + ka \in 1..n
      <4>1. i \in Int /\ i + kt \in Int /\ i + kt >= 1 /\ i + kt < Len(t) + 1
        BY <2>2, <2>4, <1>1, <1>7, <1>8
      <4>2. CASE ks = 0 /\ Len(t) = n /\ kt = 0 /\ ka = 0
        BY <4>1, <4>2, <1>1
      <4>3. CASE ks = n - H /\ Len(t) = H /\ kt = 1 /\ ka = n + 1 - H
        <5>1. n >= H BY <1>1, <1>2, <1>8, <4>3 DEF ks
        <5> QED BY <4>1, <4>3, <5>1, <1>1
      <4> QED BY <4>2, <4>3, <1>7
    <3>2. tr[i + kt] = s[i + kt + ks] BY <3>1, <1>2, <1>3
    <3>3. sr[i + ka] = s[i + ka] BY <3>1, <1>4
    <3> QED BY <2>1, <2>2, <3>2, <3>3
  <2> QED BY <2>3, <2>4
<1> QED BY <1>5, <1>6, <1>9, <1>10, SeqEqual DEF t, tr, sr, u, v

\* The history has only runs that were added, and takes a new one without repeating it.
LEMMA LimitRange ==
  ASSUME NEW s \in Seq(Runs)
  PROVE  Range(apply_history_limit(s)) \subseteq Range(s)
<1> DEFINE t == apply_history_limit(s)
           k == IF Len(s) <= HistoryLimit THEN 0 ELSE Len(s) - HistoryLimit
<1>1. Len(s) \in Nat /\ HistoryLimit \in Nat \ {0}
  BY LenProperties, LimitsAssumption
<1>2. t \in Seq(Runs) /\ Len(t) = Len(s) - k /\ \A i \in 1..Len(t) : t[i] = s[i + k]
  BY LimitProperties
<1>3. DOMAIN t = 1..Len(t) /\ DOMAIN s = 1..Len(s)
  BY <1>2, LenProperties
<1> HIDE DEF t
<1> SUFFICES ASSUME NEW i \in 1..Len(t) PROVE t[i] \in Range(s)
  BY <1>3 DEF Range, t
<1>4. i + k \in 1..Len(s) BY <1>1, <1>2
<1> QED BY <1>2, <1>3, <1>4 DEF Range

LEMMA LimitDistinct ==
  ASSUME NEW s \in Seq(Runs), NEW r \in Runs, Distinct(s), r \notin Range(s)
  PROVE  /\ Distinct(apply_history_limit(Append(s, r)))
         /\ apply_history_limit(Append(s, r)) \in Histories
<1> DEFINE a == Append(s, r)
           t == apply_history_limit(a)
           k == IF Len(a) <= HistoryLimit THEN 0 ELSE Len(a) - HistoryLimit
<1>1. Len(s) \in Nat /\ HistoryLimit \in Nat \ {0} /\ DOMAIN s = 1..Len(s)
  BY LenProperties, LimitsAssumption
<1>2. /\ a \in Seq(Runs) /\ Len(a) = Len(s) + 1
      /\ \A i \in 1..Len(s) : a[i] = s[i]
      /\ a[Len(s) + 1] = r
  BY AppendProperties
<1>3. t \in Seq(Runs) /\ Len(t) = Len(a) - k /\ \A i \in 1..Len(t) : t[i] = a[i + k]
  BY <1>2, LimitProperties
<1> HIDE DEF a, t
<1>4. Distinct(a)
  BY <1>1, <1>2 DEF Distinct, Range
<1>5. k \in Nat /\ Len(t) \in Nat /\ Len(t) <= HistoryLimit
  BY <1>1, <1>2, <1>3
<1> HIDE DEF k
<1>6. \A i \in 1..Len(t) : i + k \in 1..Len(a)
  BY <1>1, <1>2, <1>3, <1>5
<1>7. ASSUME NEW i \in 1..Len(t), NEW j \in 1..Len(t), t[i] = t[j] PROVE i = j
  <2>1. a[i + k] = a[j + k] BY <1>3, <1>7
  <2>2. i + k = j + k BY <2>1, <1>4, <1>6 DEF Distinct
  <2> QED BY <2>2, <1>5
<1>8. Distinct(t) BY <1>7 DEF Distinct
<1> QED BY <1>3, <1>5, <1>8 DEF a, t, Histories

-----------------------------------------------------------------------------
LEMMA InitOK == Init => IInv
<1> SUFFICES ASSUME Init PROVE IInv OBVIOUS
<1>1. added = <<>> /\ Len(added) = 0 /\ added \in Seq(Runs)
  BY EmptySeq DEF Init
<1>2. Idle \in Requests
  BY LimitsAssumption DEF Idle, Requests
<1>3. app \in [Runs -> [state: States, recorded: BOOLEAN]]
  BY DEF Init, States
<1>4. \A r \in Runs : ~app[r].recorded BY DEF Init
<1>5. \A f \in Replicas : request[f] = Idle BY DEF Init
<1>6. RequestOK(Idle, record, added, app) BY DEF RequestOK, Idle
<1>7. RecordOK(record, added, app) BY <1>1 DEF Init, RecordOK
<1>8. record = None /\ failures = 0 /\ request \in [Replicas -> Requests]
  BY <1>2 DEF Init
<1>9. 0 <= MaxAdded /\ 0 \in 0..MaxFailures BY LimitsAssumption
<1> QED BY <1>1, <1>3, <1>4, <1>5, <1>6, <1>7, <1>8, <1>9 DEF IInv

\* A step that only moves one request.
LEMMA RequestStep ==
  ASSUME IInv, NEW f \in Replicas, NEW q \in Requests,
         request' = [request EXCEPT ![f] = q],
         RequestOK(q, record, added, app),
         failures' \in 0..MaxFailures,
         UNCHANGED <<app, record, added>>
  PROVE  IInv'
<1>1. request \in [Replicas -> Requests] BY DEF IInv
<1>2. request' \in [Replicas -> Requests] BY <1>1
<1>3. ASSUME NEW g \in Replicas PROVE RequestOK(request'[g], record', added', app')
  <2>1. CASE g = f BY <2>1, <1>1
  <2>2. CASE g # f BY <2>2, <1>1 DEF IInv
  <2> QED BY <2>1, <2>2
<1> QED BY <1>2, <1>3 DEF IInv

LEMMA IdleOK ==
  ASSUME NEW rec, NEW a, NEW ap
  PROVE  Idle \in Requests /\ RequestOK(Idle, rec, a, ap)
  BY LimitsAssumption DEF Idle, Requests, RequestOK

LEMMA FailOK ==
  ASSUME IInv, NEW f \in Replicas, Fail(f)
  PROVE  IInv'
<1>1. failures' \in 0..MaxFailures
  BY LimitsAssumption DEF Fail, IInv
<1> QED BY <1>1, IdleOK, RequestStep DEF Fail

LEMMA GetStatusOK ==
  ASSUME IInv, NEW f \in Replicas, NEW r \in Runs, get_status(f, r)
  PROVE  IInv'
<1> DEFINE q == [pc |-> "get", run |-> r, attempt |-> 1, seen |-> None]
<1>1. q \in Requests /\ r # None
  BY LimitsAssumption DEF Requests
<1>2. app[r].state \in TerminalStates BY DEF get_status
<1>3. RequestOK(q, record, added, app)
  BY <1>1, <1>2 DEF RequestOK
<1>4. failures' \in 0..MaxFailures BY DEF get_status, IInv
<1> HIDE DEF q
<1>5. request' = [request EXCEPT ![f] = q] BY DEF get_status, q
<1> QED BY <1>1, <1>3, <1>4, <1>5, RequestStep DEF get_status

\* The request goes on with the current record.
LEMMA WithContextOK ==
  ASSUME NEW q \in Requests, NEW rec \in Records, NEW a \in Seq(Runs), NEW ap,
         q.pc \in {"get", "create"}, RequestOK(q, rec, a, ap),
         rec.runs = apply_history_limit(a)
  PROVE  WithContext(q, rec) \in Requests /\ RequestOK(WithContext(q, rec), rec, a, ap)
<1>1. /\ q.run # None /\ q.attempt # 0 /\ q.seen = None
      /\ ap[q.run].state \in TerminalStates
  BY DEF RequestOK
<1>2. CASE AlreadyExists(rec, q.run)
  <2> DEFINE w == [q EXCEPT !.pc = "annotate"]
  <2>1. w \in Requests BY DEF Requests
  <2>2. /\ w.pc = "annotate" /\ w.run = q.run /\ w.attempt = q.attempt /\ w.seen = None
    BY <1>1 DEF Requests
  <2>3. q.run \in Range(a) BY <1>2, LimitRange DEF AlreadyExists
  <2>4. WithContext(q, rec) = w BY <1>2 DEF WithContext
  <2> HIDE DEF w
  <2>5. RequestOK(w, rec, a, ap) BY <1>1, <2>2, <2>3 DEF RequestOK
  <2> QED BY <2>1, <2>4, <2>5
<1>3. CASE ~AlreadyExists(rec, q.run)
  <2> DEFINE w == [q EXCEPT !.pc = "patch", !.seen = rec]
  <2>1. w \in Requests BY DEF Requests
  <2>2. /\ w.pc = "patch" /\ w.run = q.run /\ w.attempt = q.attempt /\ w.seen = rec
    BY DEF Requests
  <2>3. rec # None /\ rec.version \in Nat BY NoneAssumption DEF Records
  <2>4. WithContext(q, rec) = w BY <1>3 DEF WithContext
  <2> HIDE DEF w
  <2>5. RequestOK(w, rec, a, ap)
    BY <1>1, <1>3, <2>2, <2>3 DEF RequestOK, AlreadyExists
  <2> QED BY <2>1, <2>4, <2>5
<1> QED BY <1>2, <1>3

LEMMA GetJobRecordOK ==
  ASSUME IInv, NEW f \in Replicas, get_job_record(f)
  PROVE  IInv'
<1> DEFINE q == request[f]
           w == IF record = None THEN [q EXCEPT !.pc = "create"] ELSE WithContext(q, record)
<1>1. q \in Requests /\ RequestOK(q, record, added, app) BY DEF IInv
<1>2. q.pc = "get" /\ request' = [request EXCEPT ![f] = w] BY DEF get_job_record
<1>3. w \in Requests /\ RequestOK(w, record, added, app)
  <2>1. CASE record = None
    <3>1. w = [q EXCEPT !.pc = "create"] BY <2>1
    <3>2. w \in Requests BY <1>1, <3>1 DEF Requests
    <3>3. /\ w.pc = "create" /\ w.run = q.run /\ w.attempt = q.attempt /\ w.seen = q.seen
      BY <1>1, <3>1 DEF Requests
    <3> HIDE DEF w, q
    <3> QED BY <1>1, <1>2, <3>2, <3>3 DEF RequestOK
  <2>2. CASE record # None
    <3>1. /\ record \in Records /\ added \in Seq(Runs)
          /\ record.runs = apply_history_limit(added)
      BY <2>2 DEF IInv, RecordOK
    <3>2. w = WithContext(q, record) BY <2>2
    <3> HIDE DEF w, q
    <3> QED BY <1>1, <1>2, <3>1, <3>2, WithContextOK
  <2> QED BY <2>1, <2>2
<1>4. failures' \in 0..MaxFailures BY DEF get_job_record, IInv
<1> HIDE DEF w, q
<1> QED BY <1>2, <1>3, <1>4, RequestStep DEF get_job_record

LEMMA ConflictOK ==
  ASSUME IInv, NEW f \in Replicas, Conflict(f)
  PROVE  IInv'
<1> DEFINE q == request[f]
           w == [q EXCEPT !.pc = "get", !.attempt = @ + 1, !.seen = None]
<1>1. q \in Requests /\ RequestOK(q, record, added, app) BY DEF IInv
<1>2. failures' \in 0..MaxFailures BY DEF Conflict, IInv
<1>3. q.pc = "patch" BY DEF Conflict
<1>4. CASE q.attempt < MaxAttempts
  <2>1. request' = [request EXCEPT ![f] = w] BY <1>4 DEF Conflict
  <2>2. w \in Requests
    <3>1. q.attempt + 1 \in 0..MaxAttempts BY <1>1, <1>4, LimitsAssumption DEF Requests
    <3> QED BY <1>1, <3>1 DEF Requests
  <2>3. w.pc = "get" /\ w.run = q.run /\ w.attempt = q.attempt + 1 /\ w.seen = None
    BY <1>1 DEF Requests
  <2>4. w.attempt # 0 BY <1>1, <2>3 DEF Requests
  <2> HIDE DEF w, q
  <2>5. RequestOK(w, record, added, app) BY <1>1, <1>3, <2>3, <2>4 DEF RequestOK
  <2> QED BY <1>2, <2>1, <2>2, <2>5, RequestStep DEF Conflict
<1>5. CASE ~(q.attempt < MaxAttempts)
  <2>1. request' = [request EXCEPT ![f] = Idle] BY <1>5 DEF Conflict, ConflictError
  <2> QED BY <1>2, <2>1, IdleOK, RequestStep DEF Conflict
<1> QED BY <1>4, <1>5

\* A new record: no request can have read one.
LEMMA CreateJobRecordOK ==
  ASSUME IInv, NEW f \in Replicas, create_job_record(f)
  PROVE  IInv'
<1> DEFINE q == request[f]
<1>1. q \in Requests /\ RequestOK(q, record, added, app) BY DEF IInv
<1>2. q.pc = "create" BY DEF create_job_record
<1>3. CASE record # None
  <2> DEFINE w == [q EXCEPT !.pc = "get"]
  <2>1. request' = [request EXCEPT ![f] = w] /\ UNCHANGED <<app, record, added>>
    BY <1>3 DEF create_job_record
  <2>2. w \in Requests BY <1>1 DEF Requests
  <2>3. w.pc = "get" /\ w.run = q.run /\ w.attempt = q.attempt /\ w.seen = q.seen
    BY <1>1 DEF Requests
  <2> HIDE DEF w, q
  <2>4. RequestOK(w, record, added, app) BY <1>1, <1>2, <2>3 DEF RequestOK
  <2>5. failures' \in 0..MaxFailures BY DEF create_job_record, IInv
  <2> QED BY <2>1, <2>2, <2>4, <2>5, RequestStep
<1>4. CASE record = None
  <2> DEFINE w == WithContext(q, NewRecord)
  <2>1. /\ record' = NewRecord /\ request' = [request EXCEPT ![f] = w]
        /\ UNCHANGED <<app, added, failures>>
    BY <1>4 DEF create_job_record
  <2>2. added = <<>> /\ added \in Seq(Runs) BY <1>4 DEF IInv, RecordOK
  <2>3. apply_history_limit(added) = <<>> /\ Len(added) = 0
    BY <2>2, LimitsAssumption DEF apply_history_limit
  <2>4. <<>> \in Histories BY LimitsAssumption, EmptySeq DEF Histories
  <2>5. NewRecord \in Records
    BY <2>4, LimitsAssumption DEF NewRecord, EmptySummary, Records, Summaries
  <2>6. \A g \in Replicas : request[g].pc # "patch"
    BY <1>4 DEF IInv, RequestOK
  <2>7. \A g \in Replicas : RequestOK(request[g], NewRecord, added, app)
    BY <2>6 DEF IInv, RequestOK
  <2>8. NewRecord.runs = apply_history_limit(added) BY <2>3 DEF NewRecord
  <2>9. w \in Requests /\ RequestOK(w, NewRecord, added, app)
    <3>1. RequestOK(q, NewRecord, added, app) BY <2>7
    <3>2. q.pc \in {"get", "create"} /\ added \in Seq(Runs) BY <1>2, <2>2
    <3> HIDE DEF q
    <3> QED BY <1>1, <2>5, <2>8, <3>1, <3>2, WithContextOK
  <2>10. RecordOK(NewRecord, added, app)
    <3>1. \A T : Index(added, T) = {} BY <2>3 DEF Index
    <3>2. \A T : Cardinality(Index(added, T)) = 0 BY <3>1, FS_EmptySet
    <3> QED BY <2>2, <2>3, <3>2 DEF RecordOK, NewRecord, EmptySummary
  <2>11. Distinct(NewRecord.runs)
    BY <2>2, <2>3 DEF Distinct, NewRecord
  <2> HIDE DEF w
  <2>12. request \in [Replicas -> Requests] BY DEF IInv
  <2>13. request' \in [Replicas -> Requests] BY <2>1, <2>9, <2>12
  <2>14. ASSUME NEW g \in Replicas PROVE RequestOK(request'[g], record', added', app')
    <3>1. CASE g = f BY <3>1, <2>1, <2>9, <2>12
    <3>2. CASE g # f BY <3>2, <2>1, <2>7, <2>12
    <3> QED BY <3>1, <3>2
  <2> QED BY <2>1, <2>5, <2>10, <2>11, <2>13, <2>14 DEF IInv
<1> QED BY <1>3, <1>4

\* A patch is applied to the record that was read.
LEMMA PatchOK ==
  ASSUME IInv, NEW f \in Replicas, patch_job_record_status(f)
  PROVE  IInv'
<1> DEFINE q == request[f]
           r == q.run
           b == Append(added, r)
<1>1. q \in Requests /\ RequestOK(q, record, added, app) /\ request \in [Replicas -> Requests]
  BY DEF IInv
<1>2. /\ q.pc = "patch" /\ VersionMatches(q.seen) /\ Len(added) < MaxAdded
      /\ record' = Patched(q.seen, r) /\ added' = b /\ UNCHANGED app
  BY DEF patch_job_record_status
<1>3. /\ q.run # None /\ q.attempt # 0 /\ r \in Runs
      /\ record # None /\ q.seen = record /\ r \notin Range(record.runs)
      /\ app[r].state \in TerminalStates
  BY <1>1, <1>2 DEF RequestOK, VersionMatches, Requests
<1>4. /\ record \in Records /\ added \in Seq(Runs) /\ Len(added) \in Nat
      /\ record.version = Len(added)
      /\ record.runs = apply_history_limit(added)
      /\ DOMAIN added = 1..Len(added)
  BY <1>3, LenProperties DEF IInv, RecordOK
<1>5. /\ b \in Seq(Runs) /\ Len(b) = Len(added) + 1 /\ DOMAIN b = 1..Len(b)
      /\ \A i \in 1..Len(added) : b[i] = added[i]
      /\ b[Len(b)] = r
  BY <1>3, <1>4, AppendProperties, LenProperties
<1>6. record' = [version |-> Len(b),
                 runs    |-> apply_history_limit(Append(record.runs, r)),
                 summary |-> accumulate(record.summary, r)]
  BY <1>2, <1>3, <1>4, <1>5 DEF Patched
<1> HIDE DEF b, q, r
<1>7. Range(added) \subseteq Range(b) /\ r \in Range(b)
  <2>1. \A i \in 1..Len(added) : i \in 1..Len(b) BY <1>4, <1>5
  <2>2. Len(b) \in 1..Len(b) BY <1>4, <1>5
  <2> QED BY <1>4, <1>5, <2>1, <2>2 DEF Range
<1>8. record'.runs = apply_history_limit(b)
  BY <1>3, <1>4, <1>6, LimitAppend DEF b
<1>9. record.runs \in Seq(Runs) /\ Distinct(record.runs)
  BY <1>3, <1>4 DEF IInv, Records, Histories
<1>10. Distinct(record'.runs) /\ record'.runs \in Histories
  BY <1>3, <1>6, <1>9, LimitDistinct
<1> DEFINE C == RunsIn(app, "Completed")
           F == RunsIn(app, "Failed")
<1>11. record.summary = [totalRuns |-> Len(added), successfulRuns |-> Cardinality(Index(added, C)),
                         failedRuns |-> Cardinality(Index(added, F))]
  BY <1>3 DEF IInv, RecordOK
<1>12. /\ Cardinality(Index(b, C)) = Cardinality(Index(added, C)) + (IF r \in C THEN 1 ELSE 0)
       /\ Cardinality(Index(b, F)) = Cardinality(Index(added, F)) + (IF r \in F THEN 1 ELSE 0)
  BY <1>3, <1>4, IndexAppend DEF b
<1>13. /\ Cardinality(Index(added, C)) \in Nat /\ Cardinality(Index(added, F)) \in Nat
       /\ Cardinality(Index(b, C)) \in 0..Len(b) /\ Cardinality(Index(b, F)) \in 0..Len(b)
  BY <1>4, <1>5, IndexFinite, FS_CardinalityType
<1>14. /\ r \in C <=> app[r].state = "Completed"
       /\ r \in F <=> app[r].state = "Failed"
       /\ app[r].state = "Completed" \/ app[r].state = "Failed"
  BY <1>3 DEF RunsIn, TerminalStates
<1>15. record'.summary = [totalRuns |-> Len(b), successfulRuns |-> Cardinality(Index(b, C)),
                          failedRuns |-> Cardinality(Index(b, F))]
  <2>1. record'.summary = accumulate(record.summary, r) BY <1>6
  <2> DEFINE ok == IF app[r].state = "Completed" THEN 1 ELSE 0
  <2>2. accumulate(record.summary, r) =
          [totalRuns |-> Len(added) + 1,
           successfulRuns |-> Cardinality(Index(added, C)) + ok,
           failedRuns |-> Cardinality(Index(added, F)) + 1 - ok]
    BY <1>11 DEF accumulate
  <2> HIDE DEF C, F
  <2>3. /\ Cardinality(Index(b, C)) = Cardinality(Index(added, C)) + ok
        /\ Cardinality(Index(b, F)) = Cardinality(Index(added, F)) + 1 - ok
    <3>1. CASE app[r].state = "Completed" BY <3>1, <1>12, <1>13, <1>14
    <3>2. CASE app[r].state = "Failed" BY <3>2, <1>12, <1>13, <1>14
    <3> QED BY <3>1, <3>2, <1>14
  <2> QED BY <2>1, <2>2, <2>3, <1>5
<1> HIDE DEF C, F
<1>16. Len(b) \in 0..MaxAdded BY <1>2, <1>4, <1>5, LimitsAssumption, SMTT(60)
<1>17. record' \in Records
  <2>1. record'.summary \in Summaries
    BY <1>13, <1>15, <1>16, LimitsAssumption DEF Summaries
  <2> QED BY <1>6, <1>10, <1>16, <2>1 DEF Records
<1>18. RecordOK(record', b, app')
  <2>1. record' # None BY <1>17, NoneAssumption
  <2>2. record'.version = Len(b) BY <1>6
  <2> QED BY <1>2, <1>8, <1>15, <2>1, <2>2 DEF RecordOK, C, F
<1>19. \A i \in 1..Len(b) : app[b[i]].state \in TerminalStates
  <2> SUFFICES ASSUME NEW i \in 1..Len(b) PROVE app[b[i]].state \in TerminalStates
    OBVIOUS
  <2>1. CASE i = Len(b) BY <2>1, <1>3, <1>5
  <2>2. CASE i # Len(b)
    <3>1. i \in 1..Len(added) BY <2>2, <1>4, <1>5
    <3> QED BY <3>1, <1>5 DEF IInv
  <2> QED BY <2>1, <2>2
<1>20. ASSUME NEW g \in Replicas PROVE RequestOK(request[g], record', b, app')
  <2>1. RequestOK(request[g], record, added, app) /\ request[g] \in Requests BY DEF IInv
  <2>2. record' # None /\ record'.version = record.version + 1 /\ record.version \in Nat
    BY <1>4, <1>5, <1>6, <1>17, NoneAssumption
  <2>3. request[g].pc = "patch" => request[g].seen.version \in Nat
    BY <2>1, NoneAssumption DEF RequestOK, Requests, Records
  <2>4. request[g].pc = "patch" => /\ request[g].seen.version <= record'.version
                                   /\ request[g].seen.version # record'.version
    BY <2>1, <2>2, <2>3 DEF RequestOK
  <2> QED BY <2>1, <2>2, <2>4, <1>2, <1>7 DEF RequestOK
<1>21. PICK w \in {[q EXCEPT !.pc = "annotate", !.seen = None], Idle} :
         request' = [request EXCEPT ![f] = w]
  BY DEF patch_job_record_status, q
<1>22. w \in Requests /\ RequestOK(w, record', b, app')
  <2>1. CASE w = Idle BY <2>1, IdleOK
  <2>2. CASE w = [q EXCEPT !.pc = "annotate", !.seen = None]
    <3>1. w \in Requests BY <1>1, <2>2 DEF Requests
    <3>2. w.pc = "annotate" /\ w.run = q.run /\ w.attempt = q.attempt /\ w.seen = None
      BY <1>1, <2>2 DEF Requests
    <3>3. RequestOK(w, record', b, app')
      BY <3>2, <1>2, <1>3, <1>7 DEF RequestOK, r
    <3> QED BY <3>1, <3>3
  <2> QED BY <2>1, <2>2
<1>23. request' \in [Replicas -> Requests] BY <1>1, <1>21, <1>22
<1>24. ASSUME NEW g \in Replicas PROVE RequestOK(request'[g], record', b, app')
  <2>1. CASE g = f BY <2>1, <1>1, <1>21, <1>22
  <2>2. CASE g # f
    <3>1. request'[g] = request[g] BY <2>2, <1>1, <1>21
    <3> QED BY <3>1, <1>20
  <2> QED BY <2>1, <2>2
<1>25. failures' \in 0..MaxFailures
  BY LimitsAssumption DEF patch_job_record_status, IInv
<1>26. Len(b) <= MaxAdded BY <1>16
<1>27. \A x \in Runs : app[x].recorded => x \in Range(b)
  BY <1>7 DEF IInv
<1> QED BY <1>2, <1>5, <1>10, <1>17, <1>18, <1>19, <1>23, <1>24, <1>25, <1>26, <1>27, SMTT(60) DEF IInv

\* A change of one application that leaves the states of the runs that have ended.
LEMMA AppStep ==
  ASSUME IInv, NEW ap \in [Runs -> [state: States, recorded: BOOLEAN]],
         \A x \in Runs : app[x].state \in TerminalStates => ap[x].state = app[x].state
  PROVE  /\ RecordOK(record, added, ap)
         /\ \A i \in 1..Len(added) : ap[added[i]].state \in TerminalStates
         /\ \A g \in Replicas : RequestOK(request[g], record, added, ap)
<1>1. \A i \in 1..Len(added) : added[i] \in Runs /\ app[added[i]].state \in TerminalStates
  BY ElementOfSeq DEF IInv
<1>2. \A i \in 1..Len(added) : ap[added[i]].state = app[added[i]].state
  BY <1>1
<1>3. \A state : Index(added, RunsIn(ap, state)) = Index(added, RunsIn(app, state))
  BY <1>1, <1>2 DEF Index, RunsIn
<1>4. RecordOK(record, added, ap)
  BY <1>3 DEF IInv, RecordOK
<1>5. ASSUME NEW g \in Replicas PROVE RequestOK(request[g], record, added, ap)
  <2>1. RequestOK(request[g], record, added, app) /\ request[g] \in Requests BY DEF IInv
  <2>2. request[g].pc # "idle" => /\ request[g].run \in Runs
                                  /\ app[request[g].run].state \in TerminalStates
    BY <2>1 DEF RequestOK, Requests
  <2>3. request[g].pc # "idle" => ap[request[g].run].state \in TerminalStates
    BY <2>2
  <2> QED BY <2>1, <2>3 DEF RequestOK
<1> QED BY <1>1, <1>2, <1>4, <1>5

LEMMA TerminateOK ==
  ASSUME IInv, NEW r \in Runs, NEW state \in TerminalStates, Terminate(r, state)
  PROVE  IInv'
<1>1. app \in [Runs -> [state: States, recorded: BOOLEAN]] BY DEF IInv
<1>2. /\ app[r].state = "Running" /\ app' = [app EXCEPT ![r].state = state]
      /\ UNCHANGED <<record, request, added, failures>>
  BY DEF Terminate
<1>3. state \in States BY DEF States, TerminalStates
<1>4. app' \in [Runs -> [state: States, recorded: BOOLEAN]] BY <1>1, <1>2, <1>3
<1>5. \A x \in Runs : app[x].state \in TerminalStates => app'[x].state = app[x].state
  BY <1>1, <1>2 DEF TerminalStates
<1>6. \A x \in Runs : app'[x].recorded = app[x].recorded BY <1>1, <1>2
<1>7. /\ RecordOK(record, added, app')
      /\ \A i \in 1..Len(added) : app'[added[i]].state \in TerminalStates
      /\ \A g \in Replicas : RequestOK(request[g], record, added, app')
  BY <1>4, <1>5, AppStep
<1> QED BY <1>2, <1>4, <1>6, <1>7 DEF IInv

LEMMA AnnotateOK ==
  ASSUME IInv, NEW f \in Replicas, patch_spark_app_annotation(f)
  PROVE  IInv'
<1> DEFINE r == request[f].run
<1>1. /\ app \in [Runs -> [state: States, recorded: BOOLEAN]]
      /\ request \in [Replicas -> Requests]
      /\ RequestOK(request[f], record, added, app)
  BY DEF IInv
<1>2. /\ request[f].pc = "annotate" /\ app' = [app EXCEPT ![r].recorded = TRUE]
      /\ request' = [request EXCEPT ![f] = Idle]
      /\ UNCHANGED <<record, added, failures>>
  BY DEF patch_spark_app_annotation
<1>3. r \in Runs /\ r \in Range(added)
  BY <1>1, <1>2 DEF RequestOK, Requests
<1> HIDE DEF r
<1>4. app' \in [Runs -> [state: States, recorded: BOOLEAN]] BY <1>1, <1>2, <1>3
<1>5. \A x \in Runs : app'[x].state = app[x].state BY <1>1, <1>2
<1>6. \A x \in Runs : app'[x].recorded => x \in Range(added)
  BY <1>1, <1>2, <1>3 DEF IInv
<1>7. /\ RecordOK(record, added, app')
      /\ \A i \in 1..Len(added) : app'[added[i]].state \in TerminalStates
      /\ \A g \in Replicas : RequestOK(request[g], record, added, app')
  BY <1>4, <1>5, AppStep
<1>8. request' \in [Replicas -> Requests] BY <1>1, <1>2, IdleOK
<1>9. ASSUME NEW g \in Replicas PROVE RequestOK(request'[g], record, added, app')
  <2>1. CASE g = f BY <2>1, <1>1, <1>2, IdleOK
  <2>2. CASE g # f
    <3>1. request'[g] = request[g] BY <2>2, <1>1, <1>2
    <3> QED BY <3>1, <1>7
  <2> QED BY <2>1, <2>2
<1> QED BY <1>2, <1>4, <1>6, <1>7, <1>8, <1>9 DEF IInv

LEMMA NextOK == IInv /\ [Next]_vars => IInv'
<1> SUFFICES ASSUME IInv, [Next]_vars PROVE IInv' OBVIOUS
<1>1. ASSUME NEW r \in Runs, NEW state \in TerminalStates, Terminate(r, state) PROVE IInv'
  BY <1>1, TerminateOK
<1>2. ASSUME NEW f \in Replicas, NEW r \in Runs, get_status(f, r) PROVE IInv'
  BY <1>2, GetStatusOK
<1>3. ASSUME NEW f \in Replicas,
             \/ get_job_record(f) \/ create_job_record(f)
             \/ patch_job_record_status(f) \/ Conflict(f)
             \/ patch_spark_app_annotation(f) \/ Fail(f)
      PROVE  IInv'
  <2>1. CASE get_job_record(f) BY <2>1, GetJobRecordOK
  <2>2. CASE create_job_record(f) BY <2>2, CreateJobRecordOK, SMTT(60)
  <2>3. CASE patch_job_record_status(f) BY <2>3, PatchOK
  <2>4. CASE Conflict(f) BY <2>4, ConflictOK
  <2>5. CASE patch_spark_app_annotation(f) BY <2>5, AnnotateOK
  <2>6. CASE Fail(f) BY <2>6, FailOK
  <2> QED BY <1>3, <2>1, <2>2, <2>3, <2>4, <2>5, <2>6
<1>4. CASE UNCHANGED vars
  BY <1>4 DEF vars, IInv
<1> QED BY <1>1, <1>2, <1>3, <1>4 DEF Next

-----------------------------------------------------------------------------
\* The inductive invariant holds.
LEMMA Invariance == Spec => []IInv
  BY InitOK, NextOK, PTL DEF Spec

\* Every state has the shape TypeOK gives it: the history is within HISTORY_LIMIT, and a
\* request of add_run holds the record it read exactly while it is about to patch it.
THEOREM TypeCorrect == Spec => []TypeOK
<1>1. IInv => TypeOK
  BY DEF IInv, TypeOK, RequestOK
<1> QED BY <1>1, Invariance, PTL

\* Whatever the number of replicas, no patch of the record overwrites another: its summary
\* counts every run that was added and its history is the last of them.
THEOREM NoUpdateIsLost == Spec => []NoLostUpdate
<1>1. IInv => NoLostUpdate
  <2> SUFFICES ASSUME IInv, record # None
               PROVE  /\ record.runs = apply_history_limit(added)
                      /\ record.summary =
                           [totalRuns |-> Len(added), successfulRuns |-> CountOf("Completed"),
                            failedRuns |-> CountOf("Failed")]
    BY DEF NoLostUpdate
  <2>1. RecordOK(record, added, app) /\ added \in Seq(Runs) BY DEF IInv
  <2>2. DOMAIN added = 1..Len(added) /\ \A i \in 1..Len(added) : added[i] \in Runs
    BY <2>1, LenProperties, ElementOfSeq
  <2>3. \A state : {i \in DOMAIN added : app[added[i]].state = state}
                     = Index(added, RunsIn(app, state))
    BY <2>2 DEF Index, RunsIn
  <2>4. /\ CountOf("Completed") = Cardinality(Index(added, RunsIn(app, "Completed")))
        /\ CountOf("Failed") = Cardinality(Index(added, RunsIn(app, "Failed")))
    BY <2>3 DEF CountOf
  <2> QED BY <2>1, <2>4 DEF RecordOK
<1> QED BY <1>1, Invariance, PTL

\* The history of a query never has a run twice.
THEOREM HistoryStaysDistinct == Spec => []HistoryIsDistinct
<1>1. IInv => HistoryIsDistinct
  <2> SUFFICES ASSUME IInv, record # None,
                      NEW i \in DOMAIN record.runs, NEW j \in DOMAIN record.runs,
                      record.runs[i] = record.runs[j]
               PROVE  i = j
    BY DEF HistoryIsDistinct
  <2>1. record.runs \in Seq(Runs) /\ Distinct(record.runs)
    BY DEF IInv, Records, Histories
  <2>2. DOMAIN record.runs = 1..Len(record.runs) BY <2>1, LenProperties
  <2> QED BY <2>1, <2>2 DEF Distinct
<1> QED BY <1>1, Invariance, PTL

\* A SparkApplication that carries the recorded annotation has its run in the record.
THEOREM RecordedRunsAreCounted == Spec => []RecordedIsCounted
<1>1. IInv => RecordedIsCounted
  BY DEF IInv, RecordedIsCounted
<1> QED BY <1>1, Invariance, PTL

-----------------------------------------------------------------------------
\* A patch that is applied adds to the current record a run that is not in its history and
\* has ended.
LEMMA PatchCurrent ==
  ASSUME IInv, NEW f \in Replicas, patch_job_record_status(f)
  PROVE  LET r == request[f].run IN
         /\ r \in Runs /\ app[r].state \in TerminalStates
         /\ record \in Records /\ record # None /\ request[f].seen = record
         /\ r \notin Range(record.runs)
         /\ record.runs = apply_history_limit(added)
         /\ record' = Patched(record, r) /\ added' = Append(added, r) /\ UNCHANGED app
<1>1. request[f] \in Requests /\ RequestOK(request[f], record, added, app)
  BY DEF IInv
<1>2. request[f].pc = "patch" /\ VersionMatches(request[f].seen)
  BY DEF patch_job_record_status
<1>3. /\ record # None /\ request[f].seen = record
      /\ request[f].run \in Runs /\ app[request[f].run].state \in TerminalStates
      /\ request[f].run \notin Range(record.runs)
  BY <1>1, <1>2 DEF RequestOK, VersionMatches, Requests
<1>4. record \in Records /\ record.runs = apply_history_limit(added)
  BY <1>3 DEF IInv, RecordOK
<1> QED BY <1>3, <1>4 DEF patch_job_record_status

\* A run that is not among the last HistoryLimit runs added has been added, if at all, more
\* than HistoryLimit additions ago.
LEMMA ForgottenIsApart ==
  ASSUME NEW a \in Seq(Runs), NEW r \in Runs, r \notin Range(apply_history_limit(a)),
         NEW i \in 1..Len(a), a[i] = r
  PROVE  Len(a) + 1 - i > HistoryLimit
<1> DEFINE t == apply_history_limit(a)
           k == IF Len(a) <= HistoryLimit THEN 0 ELSE Len(a) - HistoryLimit
<1>1. Len(a) \in Nat /\ HistoryLimit \in Nat \ {0}
  BY LenProperties, LimitsAssumption
<1>2. /\ t \in Seq(Runs) /\ Len(t) = Len(a) - k
      /\ \A j \in 1..Len(t) : t[j] = a[j + k]
  BY LimitProperties
<1>3. DOMAIN t = 1..Len(t)
  BY <1>2, LenProperties
<1> HIDE DEF t
<1>4. SUFFICES ASSUME Len(a) + 1 - i <= HistoryLimit PROVE FALSE
  BY <1>1
<1>5. i - k \in 1..Len(t) /\ (i - k) + k = i
  BY <1>1, <1>2, <1>4
<1>6. t[i - k] = r
  BY <1>2, <1>5
<1> QED BY <1>3, <1>5, <1>6 DEF Range, t

\* A run that add_run counts twice was added more than HISTORY_LIMIT runs ago, for any number
\* of replicas and failures: the duplicates that the run job_record_evicted shows are the
\* only ones.
THEOREM RepeatsStayApart == Spec => []RepeatsAreApart
<1>1. Init => RepeatsAreApart
  BY SMTT(60) DEF Init, RepeatsAreApart
<1>2. IInv /\ RepeatsAreApart /\ [Next]_vars => RepeatsAreApart'
  <2> SUFFICES ASSUME IInv, RepeatsAreApart, [Next]_vars PROVE RepeatsAreApart'
    OBVIOUS
  <2>1. CASE UNCHANGED added
    BY <2>1 DEF RepeatsAreApart
  <2>2. ASSUME NEW f \in Replicas, patch_job_record_status(f) PROVE RepeatsAreApart'
    <3> DEFINE r == request[f].run
    <3>1. /\ r \in Runs /\ added' = Append(added, r)
          /\ r \notin Range(apply_history_limit(added))
      BY <2>2, PatchCurrent
    <3>2. added \in Seq(Runs) /\ Len(added) \in Nat /\ DOMAIN added = 1..Len(added)
      BY LenProperties DEF IInv
    <3> HIDE DEF r
    <3>3. /\ added' \in Seq(Runs) /\ Len(added') = Len(added) + 1
          /\ DOMAIN added' = 1..Len(added')
          /\ \A i \in 1..Len(added) : added'[i] = added[i]
          /\ added'[Len(added) + 1] = r
      BY <3>1, <3>2, AppendProperties, LenProperties
    <3> SUFFICES ASSUME NEW i \in DOMAIN added', NEW j \in DOMAIN added',
                        i < j, added'[i] = added'[j]
                 PROVE  j - i > HistoryLimit
      BY DEF RepeatsAreApart
    <3>4. i \in 1..Len(added) /\ (j \in 1..Len(added) \/ j = Len(added) + 1)
      BY <3>2, <3>3
    <3>5. CASE j \in 1..Len(added)
      BY <3>2, <3>3, <3>4, <3>5 DEF RepeatsAreApart
    <3>6. CASE j = Len(added) + 1
      <4>1. added[i] = r
        BY <3>3, <3>4, <3>6
      <4> QED BY <3>1, <3>2, <3>4, <3>6, <4>1, ForgottenIsApart
    <3> QED BY <3>4, <3>5, <3>6
  <2> QED BY <2>1, <2>2 DEF Next, vars, Terminate, get_status, get_job_record,
             create_job_record, Conflict, patch_spark_app_annotation, Fail
<1> QED BY <1>1, <1>2, Invariance, PTL DEF Spec

\* A window of HISTORY_LIMIT + 1 additions has that many runs.
LEMMA WindowIsDistinct ==
  ASSUME IInv, RepeatsAreApart, IsFiniteSet(Runs), Cardinality(Runs) <= HistoryLimit,
         NEW j \in DOMAIN added, j > HistoryLimit
  PROVE  FALSE
<1> DEFINE S == (j - HistoryLimit)..j
           window == [i \in S |-> added[i]]
<1>1. HistoryLimit \in Nat /\ Cardinality(Runs) \in Nat
  BY LimitsAssumption, FS_CardinalityType
<1>2. added \in Seq(Runs) /\ Len(added) \in Nat /\ DOMAIN added = 1..Len(added)
  BY LenProperties DEF IInv
<1>3. j \in Int /\ j - HistoryLimit \in Int /\ S \subseteq DOMAIN added
  BY <1>1, <1>2
<1>4. IsFiniteSet(S) /\ Cardinality(S) = HistoryLimit + 1
  BY <1>1, <1>3, FS_Interval
<1>5. window \in [S -> Runs]
  BY <1>2, <1>3, ElementOfSeq
<1>6. Cardinality(Runs) < Cardinality(S)
  BY <1>1, <1>4
<1>7. PICK x \in S, y \in S : x # y /\ window[x] = window[y]
  <2> HIDE DEF S, window
  <2> QED BY <1>4, <1>5, <1>6, FS_PigeonHole
<1>8. added[x] = added[y] /\ x \in DOMAIN added /\ y \in DOMAIN added
  BY <1>3, <1>7
<1>9. x \in Int /\ y \in Int /\ (x < y \/ y < x) /\ x - y <= HistoryLimit /\ y - x <= HistoryLimit
  BY <1>1, <1>3, <1>7
<1> QED BY <1>1, <1>8, <1>9 DEF RepeatsAreApart

\* While a query has no more runs than its history keeps, "duplicate runs are automatically
\* skipped" is true of add_run: each is counted once, whatever is repeated, lost or raced.
THEOREM FewRunsAreCountedOnce ==
  IsFiniteSet(Runs) /\ Cardinality(Runs) <= HistoryLimit /\ Spec => []DuplicatesAreSkipped
<1>1. ASSUME IsFiniteSet(Runs), Cardinality(Runs) <= HistoryLimit
      PROVE  IInv /\ RepeatsAreApart => DuplicatesAreSkipped
  <2> SUFFICES ASSUME IInv, RepeatsAreApart, NEW i \in DOMAIN added, NEW j \in DOMAIN added,
                      added[i] = added[j], i < j
               PROVE  FALSE
    <3>1. DOMAIN added \subseteq Int
      BY LenProperties DEF IInv
    <3> QED BY <3>1 DEF DuplicatesAreSkipped
  <2>1. i \in Nat \ {0} /\ j \in Nat /\ HistoryLimit \in Nat
    BY LenProperties, LimitsAssumption DEF IInv
  <2>2. j - i > HistoryLimit
    BY DEF RepeatsAreApart
  <2>3. j > HistoryLimit
    BY <2>1, <2>2
  <2> QED BY <1>1, <2>3, WindowIsDistinct
<1>2. ASSUME IsFiniteSet(Runs), Cardinality(Runs) <= HistoryLimit
      PROVE  Spec => []DuplicatesAreSkipped
  <2>1. IInv /\ RepeatsAreApart => DuplicatesAreSkipped
    BY <1>1, <1>2
  <2> QED BY <2>1, Invariance, RepeatsStayApart, PTL
<1> QED BY <1>2

-----------------------------------------------------------------------------
\* The ledger: the steps of the replicas are steps on one ledger or change nothing of it.
LEMMA LedgerInitOK == Init => Ledger!LedgerInit
<1> SUFFICES ASSUME Init PROVE Ledger!LedgerInit OBVIOUS
<1>1. Range(added) = {} BY DEF Init, Range
<1>2. {r \in Runs : app[r].recorded} = {} BY DEF Init
<1>3. [r \in Runs |-> app[r].state] = [r \in Runs |-> "Running"] BY SMTT(60) DEF Init
<1> QED BY <1>1, <1>2, <1>3 DEF Init, Ledger!LedgerInit, EmptySummary

LEMMA LedgerStep ==
  ASSUME IInv, IInv', [Next]_vars
  PROVE  [Ledger!LedgerNext]_Ledger!ledgerVars
<1> DEFINE outcome == [r \in Runs |-> app[r].state]
           recent == IF record = None THEN <<>> ELSE record.runs
           totals == IF record = None THEN EmptySummary ELSE record.summary
           marked == {r \in Runs : app[r].recorded}
<1>1. ASSUME UNCHANGED <<app, record, added>>
      PROVE  UNCHANGED Ledger!ledgerVars
  BY <1>1 DEF Ledger!ledgerVars
<1>2. ASSUME NEW r \in Runs, NEW state \in TerminalStates, Terminate(r, state)
      PROVE  Ledger!LedgerNext
  <2>1. app \in [Runs -> [state: States, recorded: BOOLEAN]] BY DEF IInv
  <2>2. /\ app[r].state = "Running" /\ app' = [app EXCEPT ![r].state = state]
        /\ UNCHANGED <<record, added>>
    BY <1>2 DEF Terminate
  <2>3. /\ \A x \in Runs : app'[x].state = IF x = r THEN state ELSE app[x].state
        /\ \A x \in Runs : app'[x].recorded = app[x].recorded
    BY <2>1, <2>2
  <2>4. outcome' = [outcome EXCEPT ![r] = state] BY <2>3
  <2>5. marked' = marked BY <2>3, Zenon
  <2>6. state \in Ledger!Outcomes BY DEF TerminalStates, Ledger!Outcomes
  <2>7. Ledger!End(r, state) BY <2>2, <2>4, <2>5 DEF Ledger!End
  <2> QED BY <2>6, <2>7 DEF Ledger!LedgerNext
<1>3. ASSUME NEW f \in Replicas, create_job_record(f)
      PROVE  UNCHANGED Ledger!ledgerVars
  <2>1. UNCHANGED <<app, added>> /\ (record' = record \/ (record = None /\ record' = NewRecord))
    BY <1>3 DEF create_job_record
  <2>2. UNCHANGED <<outcome, marked>> BY <2>1
  <2>3. NewRecord # None /\ NewRecord.runs = <<>> /\ NewRecord.summary = EmptySummary
    <3>1. <<>> \in Histories BY LimitsAssumption, EmptySeq DEF Histories
    <3>2. NewRecord \in Records
      BY <3>1, LimitsAssumption DEF NewRecord, EmptySummary, Records, Summaries
    <3> QED BY <3>2, NoneAssumption DEF NewRecord
  <2>4. UNCHANGED <<recent, totals>> BY <2>1, <2>3
  <2> QED BY <2>1, <2>2, <2>4 DEF Ledger!ledgerVars
<1>4. ASSUME NEW f \in Replicas, patch_job_record_status(f)
      PROVE  Ledger!LedgerNext
  <2> DEFINE r == request[f].run
  <2>1. /\ r \in Runs /\ app[r].state \in TerminalStates
        /\ record \in Records /\ record # None
        /\ r \notin Range(record.runs)
        /\ record' = Patched(record, r) /\ added' = Append(added, r) /\ UNCHANGED app
    BY <1>4, PatchCurrent
  <2>2. added \in Seq(Runs) BY DEF IInv
  <2> HIDE DEF r
  <2>3. Range(added') = Range(added) \cup {r}
    <3>1. Len(added) \in Nat /\ DOMAIN added = 1..Len(added) BY <2>2, LenProperties
    <3>2. /\ DOMAIN added' = 1..(Len(added) + 1)
          /\ \A i \in 1..Len(added) : added'[i] = added[i]
          /\ added'[Len(added) + 1] = r
      BY <2>1, <2>2, <3>1, AppendProperties, LenProperties
    <3>3. \A i \in 1..(Len(added) + 1) : i \in 1..Len(added) \/ i = Len(added) + 1
      BY <3>1
    <3>4. Len(added) + 1 \in 1..(Len(added) + 1) /\ 1..Len(added) \subseteq 1..(Len(added) + 1)
      BY <3>1, SMTT(60)
    <3> QED BY <3>1, <3>2, <3>3, <3>4 DEF Range
  <2>4. record' # None
    <3>1. added' # <<>> BY <2>1, <2>2, AppendProperties
    <3> QED BY <3>1 DEF IInv, RecordOK
  <2>5. recent' = Ledger!Newest(Append(recent, r))
    BY <2>1, <2>4 DEF Patched, apply_history_limit, Ledger!Newest
  <2>6. outcome[r] = app[r].state BY <2>1
  <2>7. outcome[r] \in Ledger!Outcomes BY <2>1, <2>6 DEF TerminalStates, Ledger!Outcomes
  <2>8. Ledger!Counts(r)
    <3> DEFINE s == record.summary
    <3>1. s \in Summaries BY <2>1 DEF Records
    <3>2. totals = s /\ totals' = accumulate(s, r) BY <2>1, <2>4 DEF Patched
    <3>3. s.totalRuns \in Int /\ s.successfulRuns \in Int /\ s.failedRuns \in Int
      BY <3>1 DEF Summaries
    <3> DEFINE ok == IF app[r].state = "Completed" THEN 1 ELSE 0
    <3>4. s.failedRuns + 1 - ok = s.failedRuns + (1 - ok)
      BY <3>3
    <3> HIDE DEF s
    <3>5. accumulate(s, r) = [totalRuns |-> s.totalRuns + 1,
                              successfulRuns |-> s.successfulRuns + ok,
                              failedRuns |-> s.failedRuns + (1 - ok)]
      BY <3>4 DEF accumulate
    <3> QED BY <2>6, <3>2, <3>5 DEF Ledger!Counts
  <2>9. UNCHANGED <<outcome, marked>> BY <2>1
  <2>10. r \notin Ledger!Range(recent)
    BY <2>1 DEF Range, Ledger!Range
  <2>11. Ledger!Add(r)
    BY <2>3, <2>5, <2>7, <2>8, <2>9, <2>10 DEF Ledger!Add
  <2> QED BY <2>1, <2>11 DEF Ledger!LedgerNext
<1>5. ASSUME NEW f \in Replicas, patch_spark_app_annotation(f)
      PROVE  Ledger!LedgerNext
  <2>1. /\ app \in [Runs -> [state: States, recorded: BOOLEAN]]
        /\ request[f] \in Requests
        /\ RequestOK(request[f], record, added, app)
    BY DEF IInv
  <2>2. PICK r \in Runs : r = request[f].run /\ r \in Range(added)
    BY <1>5, <2>1 DEF patch_spark_app_annotation, RequestOK, Requests
  <2>3. app' = [app EXCEPT ![r].recorded = TRUE] /\ UNCHANGED <<record, added>>
    BY <1>5, <2>2 DEF patch_spark_app_annotation
  <2>4. /\ \A x \in Runs : app'[x].state = app[x].state
        /\ app'[r].recorded = TRUE
        /\ \A x \in Runs : x # r => app'[x].recorded = app[x].recorded
    BY <2>1, <2>3
  <2>5. outcome' = outcome BY <2>4
  <2>6. marked' = marked \cup {r} BY <2>4, ZenonT(30)
  <2>7. Ledger!Mark(r) BY <2>2, <2>3, <2>5, <2>6 DEF Ledger!Mark
  <2> QED BY <2>7 DEF Ledger!LedgerNext
<1> HIDE DEF outcome, recent, totals, marked
<1> QED BY <1>1, <1>2, <1>3, <1>4, <1>5 DEF Next, vars, get_status, get_job_record, Conflict, Fail

\* Whatever the number of replicas and however they interleave and fail, recording runs is
\* recording them one after the other in one ledger: each patch reads and writes the same
\* state of the record.
THEOREM RecordIsALedger == Spec => ImplementsLedger
<1>1. IInv /\ IInv' /\ [Next]_vars => [Ledger!LedgerNext]_Ledger!ledgerVars
  BY LedgerStep
<1> QED BY <1>1, LedgerInitOK, Invariance, PTL DEF Spec, ImplementsLedger, Ledger!LedgerSpec
=============================================================================
