----------------------------- MODULE AnswerProofs -----------------------------
(***************************************************************************)
(* What an answer consists of: at most top_k hits for a text search, all   *)
(* the engine can compare with the query if it is shorter, and in any case *)
(* what TenantIndex allows.                                                *)
(***************************************************************************)
EXTENDS LineageProofs

-----------------------------------------------------------------------------
(* The size of an answer *)

\* The smaller of two numbers.
LEMMA MinOfTwo ==
    ASSUME NEW a \in Nat, NEW b \in Nat
    PROVE  Min({a, b}) = IF a <= b THEN a ELSE b
<1> DEFINE least == IF a <= b THEN a ELSE b
<1>1. least \in {a, b} /\ \A y \in {a, b} : least <= y
  OBVIOUS
<1>2. Min({a, b}) \in {a, b} /\ \A y \in {a, b} : Min({a, b}) <= y
  BY <1>1 DEF Min
<1> QED
  BY <1>2

\* A search result has at most TopK rows, and has all rows of the tenant that
\* are as long as the query if it has less.
LEMMA NearestSize ==
    ASSUME NEW e \in Engines, IsFiniteSet(db[e]), NEW env, env.data.topk \in Nat,
           NEW hits \in Nearest(e, env)
    PROVE  /\ Cardinality(hits) <= TopK(env)
           /\ Cardinality(hits) < TopK(env) => hits = Comparable(e, env)
<1> DEFINE rows == Comparable(e, env)
           n == TopK(env)
           k == Cardinality(rows)
<1>1. IsFiniteSet(rows)
  <2>1. rows \subseteq db[e]
    BY DEF Comparable, RowsOf
  <2> QED
    BY <2>1, FS_Subset
<1>2. n \in Nat /\ k \in Nat
  BY <1>1, FS_CardinalityType DEF TopK
<1>3. hits \subseteq rows /\ Cardinality(hits) = Min({n, k})
  BY DEF Nearest, kSubset
<1> HIDE DEF rows, n, k
<1>4. Cardinality(hits) = IF n <= k THEN n ELSE k
  BY <1>2, <1>3, MinOfTwo
<1>5. Cardinality(hits) <= n
  BY <1>2, <1>4
<1>6. ASSUME Cardinality(hits) < n PROVE hits = rows
  <2>1. Cardinality(hits) = k
    BY <1>2, <1>4, <1>6
  <2> QED
    BY <1>1, <1>3, <2>1, FS_Subset DEF k
<1> QED
  BY <1>5, <1>6 DEF n, rows

\* The stores are finite, and the bound holds.
TopKInv ==
    /\ \A e \in Engines : IsFiniteSet(db[e])
    /\ TextSearchWithinTopK

\* An upsert adds one row at most.
LEMMA FiniteStays ==
    ASSUME IInv, TopKInv, [Next]_vars, NEW e \in Engines
    PROVE  IsFiniteSet(db'[e])
<1>1. IsFiniteSet(db[e])
  BY DEF TopKInv
<1>2. ASSUME NEW row PROVE IsFiniteSet(Upserted(db[e], row))
  <2> DEFINE old == {o \in db[e] : ~(o.tenant = row.tenant /\ o.chunk = row.chunk)}
  <2>1. IsFiniteSet(old)
    BY <1>1, FS_Subset
  <2> HIDE DEF old
  <2>2. IsFiniteSet(old \cup {row})
    BY <2>1, FS_AddElement
  <2> QED
    BY <2>2 DEF Upserted, old
<1>3. IsFiniteSet({})
  BY FS_EmptySet
<1> QED
  BY <1>1, <1>2, <1>3, RowStep

\* The task of a text search asks for what the search asked for.
LEMMA SearchTask ==
    ASSUME IInv, NEW m \in stream, m.topic = "engine", Lineage(m),
           Intent(m.env) = "search", Route(m.env.corr) = "embed"
    PROVE  /\ m.env.data.topk \in Nat
           /\ TopK(m.env) = Input[m.env.corr].topk
<1> DEFINE r == m.env.corr
<1>1. r \in Requests /\ Input[r].kind = "search"
  BY EngineTask, RouteType
<1>2. m.env.data.topk = Input[r].topk
  BY <1>1, EngineTask, RequestEnvIs
<1>3. Input[r].topk \in Nat /\ Input[r].topk > 0
  BY <1>1, InputOf, InputAssumption
<1> QED
  BY <1>2, <1>3 DEF TopK

\* An answer that an engine gives is made of its rows.
LEMMA AnswerOf ==
    ASSUME NEW m \in stream, NEW k, NEW env, Emits(m, k, "replies", env)
    PROVE  /\ m.topic = "engine" /\ Intent(m.env) = "search"
           /\ env.corr = m.env.corr /\ env.tenant = m.env.tenant /\ k = 1
           /\ \E e \in Engines : env.data.hits \in Nearest(e, m.env)
<1>1. /\ m.topic = "engine" /\ Intent(m.env) = "search" /\ k = 1
      /\ \E e \in Engines : \E hits \in Nearest(e, m.env) : env = ReplyEnv(m, hits)
  BY DEF Emits, Classify
<1> QED
  BY <1>1 DEF ReplyEnv, NewEnvelope, NoPayload

\* The bound holds in every reachable state.
LEMMA TopKInductive == Spec => []TopKInv
<1>1. Init => TopKInv
  BY FS_EmptySet DEF Init, TopKInv, TextSearchWithinTopK, Replies
<1>2. IInv /\ LInv /\ TopKInv /\ [Next]_vars => TopKInv'
  <2> SUFFICES ASSUME IInv, LInv, TopKInv, [Next]_vars,
                      NEW x \in stream', x.topic = "replies", Route(x.env.corr) = "embed"
               PROVE  Cardinality(x.env.data.hits) <= Input[x.env.corr].topk
    BY FiniteStays DEF TopKInv, TextSearchWithinTopK, Replies
  <2>1. ASSUME NEW y \in stream, Later(y, x)
        PROVE  Cardinality(x.env.data.hits) <= Input[x.env.corr].topk
    BY <2>1 DEF Later, Same, TopKInv, TextSearchWithinTopK, Replies
  <2>2. ASSUME NEW m \in stream, NEW k \in Nat, NEW topic, NEW env, m.held > 0,
               Emits(m, k, topic, env), x = NewMessage(ChildPath(m, k), topic, env)
        PROVE  Cardinality(x.env.data.hits) <= Input[x.env.corr].topk
    <3>1. x.env = env /\ topic = "replies"
      BY <2>2 DEF NewMessage
    <3>2. /\ m.topic = "engine" /\ Intent(m.env) = "search" /\ env.corr = m.env.corr
          /\ \E e \in Engines : env.data.hits \in Nearest(e, m.env)
      BY <2>2, <3>1, AnswerOf
    <3>3. PICK e \in Engines : env.data.hits \in Nearest(e, m.env)
      BY <3>2
    <3>4. m.env.data.topk \in Nat /\ TopK(m.env) = Input[m.env.corr].topk
      BY <3>1, <3>2, SearchTask DEF LInv, MessagesInv
    <3> QED
      BY <3>1, <3>2, <3>3, <3>4, NearestSize DEF TopKInv
  <2>3. \A r \in Requests : x # NewMessage(<<>>, "ingress", RequestEnv(r))
    BY DEF NewMessage
  <2> QED
    BY <2>1, <2>2, <2>3, MessagesComeFrom
<1> QED
  BY <1>1, <1>2, Inductive, LineageInductive, PTL DEF Spec

\* No answer to a text search is longer than the client asked, although the
\* bound has to pass through the router and the embedder.
THEOREM TextSearchesRespectTopK == Spec => []TextSearchWithinTopK
<1>1. TopKInv => TextSearchWithinTopK
  BY DEF TopKInv
<1> QED
  BY <1>1, TopKInductive, PTL

-----------------------------------------------------------------------------
(* Short answers *)

\* The engine has the row that the task asked it to keep.
HasRow(e, env) ==
    \E row \in db[e] : row.tenant = env.tenant /\ row.chunk = env.data.chunk

\* Tasks that are acked have their row in every engine, which is what a system
\* of one engine can promise.
AckedInv ==
    \A t \in stream :
        t.topic = "engine" /\ t.st = "acked" /\ Intent(t.env) = "upsert" =>
            \A e \in Engines : HasRow(e, t.env)

\* A row is replaced by one of the same chunk id only.
LEMMA HasRowStays ==
    ASSUME IInv, [Next]_vars, {"restart", "reboot"} \cap FaultKinds = {},
           NEW e \in Engines, NEW env, HasRow(e, env)
    PROVE  HasRow(e, env)'
<1>1. CASE db'[e] = db[e]
  BY <1>1 DEF HasRow
<1>2. ASSUME NEW row, db'[e] = Upserted(db[e], row)
      PROVE  HasRow(e, env)'
  BY <1>2 DEF HasRow, Upserted
<1> QED
  BY <1>1, <1>2, RowStep

\* An engine task is acked by a call that has upserted its row.
LEMMA AckedTask ==
    ASSUME IInv, [Next]_vars, NEW x \in stream', x.topic = "engine", x.st = "acked",
           Intent(x.env) = "upsert"
    PROVE  \/ \E y \in stream : Same(y, x) /\ y.st = "acked"
           \/ \E m \in stream : \E e \in Engines : EngineUpsert(m, e) /\ x.env = m.env
<1>1. CASE x \in stream
  BY <1>1 DEF Same
<1>2. CASE Recounted
  BY <1>1, <1>2 DEF Recounted, Kept
<1>3. ASSUME NEW r \in Requests, Submitted(r) PROVE x \in stream
  BY <1>3 DEF Submitted, NewMessage
<1>4. ASSUME NEW m \in stream, NEW out, Handles(m), Grows(m, out), x \notin stream
      PROVE  \E e \in Engines : EngineUpsert(m, e) /\ x.env = m.env
  <2>1. ~Made(m, out, x)
    BY DEF Made, NewMessage
  <2>2. m.topic = "engine" /\ x.env = m.env
    BY <1>4, <2>1 DEF Grows, Later, Same
  <2> QED
    BY <1>4, <2>2 DEF Handles, Router, Chunker, Vision, Embedder, EngineSearch, Running
<1> QED
  BY <1>1, <1>2, <1>3, <1>4, StreamStep

\* With one engine that keeps its rows, acked tasks have their rows.
LEMMA AckedInductive ==
    ASSUME NEW only, Engines = {only}, {"restart", "reboot"} \cap FaultKinds = {}
    PROVE  Spec => []AckedInv
<1>1. Init => AckedInv
  BY DEF Init, AckedInv
<1>2. IInv /\ AckedInv /\ [Next]_vars => AckedInv'
  <2> SUFFICES ASSUME IInv, AckedInv, [Next]_vars, NEW x \in stream', x.topic = "engine",
                      x.st = "acked", Intent(x.env) = "upsert", NEW e \in Engines
               PROVE  HasRow(e, x.env)'
    BY DEF AckedInv
  <2>1. ASSUME NEW y \in stream, Same(y, x), y.st = "acked"
        PROVE  HasRow(e, x.env)'
    <3>1. HasRow(e, x.env)
      BY <2>1 DEF AckedInv, Same
    <3> QED
      BY <3>1, HasRowStays
  <2>2. ASSUME NEW m \in stream, NEW f \in Engines, EngineUpsert(m, f), x.env = m.env
        PROVE  HasRow(e, x.env)'
    <3>1. e = f
      OBVIOUS
    <3>2. db'[e] = Upserted(db[e], RowOf(m.env))
      BY <2>2, <3>1 DEF EngineUpsert, IInv, TypeOK
    <3>3. RowOf(m.env) \in db'[e]
      BY <3>2 DEF Upserted
    <3> QED
      BY <2>2, <3>3 DEF HasRow, RowOf
  <2> QED
    BY <2>1, <2>2, AckedTask
<1> QED
  BY <1>1, <1>2, Inductive, PTL DEF Spec

\* A new answer is one that an engine gives in this step.
LEMMA NewAnswer ==
    ASSUME IInv, [Next]_vars, "reboot" \notin FaultKinds,
           NEW x \in stream', x \notin stream, x.topic = "replies"
    PROVE  \E m \in stream : \E k \in Nat :
                m.held > 0 /\ Emits(m, k, "replies", x.env) /\ x.path = ChildPath(m, k)
<1>1. ~Recounted
  BY DEF Recounted, Kept, Same, GroupTopics, Reboot, Fault
<1>2. ASSUME NEW r \in Requests PROVE ~Submitted(r)
  BY DEF Submitted, NewMessage
<1>3. ASSUME NEW m \in stream, NEW out, Handles(m), Emitted(m, out), Grows(m, out)
      PROVE  \E k \in Nat : m.held > 0 /\ Emits(m, k, "replies", x.env) /\ x.path = ChildPath(m, k)
  <2>1. m.topic # "replies"
    BY <1>3 DEF Handles, Router, Chunker, Vision, Embedder, EngineUpsert, EngineSearch, Running
  <2>2. Made(m, out, x)
    BY <1>3, <2>1 DEF Grows, Later, Same
  <2>3. PICK k \in DOMAIN out : x = NewMessage(ChildPath(m, k), out[k].topic, out[k].env)
    BY <2>2 DEF Made
  <2>4. x.topic = out[k].topic /\ x.env = out[k].env /\ x.path = ChildPath(m, k)
    BY <2>3 DEF NewMessage
  <2>5. k \in Nat /\ m.held > 0 /\ Emits(m, k, out[k].topic, out[k].env)
    BY <1>3 DEF Emitted
  <2> QED
    BY <2>4, <2>5
<1> QED
  BY <1>1, <1>2, <1>3, StreamStep

\* With one engine that does not restart, a text search that gets fewer hits
\* than it asked for has got every chunk whose task was acked before, but for
\* those whose vector has another length than its own.
THEOREM ShortAnswersAreComplete ==
    ASSUME NEW only, Engines = {only}, {"restart", "reboot"} \cap FaultKinds = {}
    PROVE  Spec => ShortAnswerIsComplete
<1>1. IInv /\ LInv /\ TopKInv /\ AckedInv /\ [Next]_vars =>
        \A m \in stream' \ stream :
            m.topic = "replies" /\ Route(m.env.corr) = "embed"
                /\ Cardinality(m.env.data.hits) < Input[m.env.corr].topk =>
                    \E query \in stream :
                        /\ query.topic = "engine" /\ query.env.corr = m.env.corr
                        /\ m.path = ChildPath(query, 1)
                        /\ \A t \in stream :
                            t.topic = "engine" /\ t.st = "acked" /\ Intent(t.env) = "upsert"
                                /\ t.env.tenant = m.env.tenant =>
                                    \/ \E hit \in m.env.data.hits : hit.chunk = t.env.data.chunk
                                    \/ OtherLength(t, query)
  <2> SUFFICES ASSUME IInv, LInv, TopKInv, AckedInv, [Next]_vars,
                      NEW x \in stream', x \notin stream,
                      x.topic = "replies", Route(x.env.corr) = "embed",
                      Cardinality(x.env.data.hits) < Input[x.env.corr].topk
               PROVE  \E query \in stream :
                        /\ query.topic = "engine" /\ query.env.corr = x.env.corr
                        /\ x.path = ChildPath(query, 1)
                        /\ \A t \in stream :
                            t.topic = "engine" /\ t.st = "acked" /\ Intent(t.env) = "upsert"
                                /\ t.env.tenant = x.env.tenant =>
                                    \/ \E hit \in x.env.data.hits : hit.chunk = t.env.data.chunk
                                    \/ OtherLength(t, query)
    OBVIOUS
  <2>1. PICK m \in stream, k \in Nat :
            m.held > 0 /\ Emits(m, k, "replies", x.env) /\ x.path = ChildPath(m, k)
    BY NewAnswer
  <2>2. /\ m.topic = "engine" /\ Intent(m.env) = "search" /\ k = 1
        /\ x.env.corr = m.env.corr /\ x.env.tenant = m.env.tenant
        /\ \E e \in Engines : x.env.data.hits \in Nearest(e, m.env)
    BY <2>1, AnswerOf
  <2>3. PICK e \in Engines : x.env.data.hits \in Nearest(e, m.env)
    BY <2>2
  <2>4. m.env.data.topk \in Nat /\ TopK(m.env) = Input[m.env.corr].topk
    BY <2>2, SearchTask DEF LInv, MessagesInv
  <2>5. x.env.data.hits = Comparable(e, m.env)
    BY <2>2, <2>3, <2>4, NearestSize DEF TopKInv
  <2>6. ASSUME NEW t \in stream, t.topic = "engine", t.st = "acked",
               Intent(t.env) = "upsert", t.env.tenant = x.env.tenant
        PROVE  \/ \E hit \in x.env.data.hits : hit.chunk = t.env.data.chunk
               \/ OtherLength(t, m)
    <3>1. PICK row \in db[e] : row.tenant = t.env.tenant /\ row.chunk = t.env.data.chunk
      BY <2>6 DEF AckedInv, HasRow
    <3>2. row \in RowsOf(e, m.env.tenant) /\ m.env.tenant = t.env.tenant
      BY <2>2, <2>6, <3>1 DEF RowsOf
    <3>3. CASE row.dim = m.env.data.dim
      BY <2>5, <3>1, <3>2, <3>3 DEF Comparable
    <3>4. CASE row.dim # m.env.data.dim
      BY <3>1, <3>2, <3>4 DEF OtherLength
    <3> QED
      BY <3>3, <3>4
  <2> QED
    BY <2>1, <2>2, <2>6
<1> QED
  BY <1>1, Inductive, LineageInductive, TopKInductive, AckedInductive, PTL
     DEF Spec, ShortAnswerIsComplete

-----------------------------------------------------------------------------
(* The refinement *)

\* What the mapping Index sees of the stream and of the rows.
AcceptedOf   == {m.env.corr : m \in stream}
AnswerIn(env) == [search |-> env.corr, hits |-> {PartOf(hit) : hit \in env.data.hits}]
AnswersOf    == {AnswerIn(m.env) : m \in Replies}
PartsIn(rows) == {PartOf(row) : row \in rows}
IndexOf      == [e \in Engines |-> PartsIn(db[e])]

\* An event belongs to the request of the event it is derived from.
LEMMA EmitsCorr ==
    ASSUME NEW m, NEW k, NEW topic, NEW env, Emits(m, k, topic, env)
    PROVE  env.corr = m.env.corr
<1>1. ASSUME NEW whole, env \in OrCut(whole), whole.corr = m.env.corr
      PROVE  env.corr = m.env.corr
  BY <1>1 DEF OrCut, CutEnv, NewEnvelope
<1>2. /\ ChunkEnv(m, k).corr = m.env.corr
      /\ VisionEnv(m).corr = m.env.corr
      /\ \A dim : EmbedEnv(m, dim).corr = m.env.corr
      /\ \A hits : ReplyEnv(m, hits).corr = m.env.corr
  BY DEF ChunkEnv, VisionEnv, EmbedEnv, ReplyEnv, NewEnvelope
<1> QED
  BY <1>1, <1>2 DEF Emits

\* Counters and verdicts are not seen.
LEMMA RecountedStutters ==
    ASSUME Recounted
    PROVE  AcceptedOf' = AcceptedOf /\ AnswersOf' = AnswersOf
<1>1. /\ \A y \in stream : \E x \in stream' : Same(y, x)
      /\ \A x \in stream' : \E y \in stream : Same(y, x)
  BY DEF Recounted, Kept, Same
<1>2. AcceptedOf' = AcceptedOf
  BY <1>1 DEF AcceptedOf, Same
<1>3. AnswersOf' = AnswersOf
  <2>1. ASSUME NEW a PROVE a \in AnswersOf <=> a \in AnswersOf'
    BY <1>1 DEF AnswersOf, Replies, Same
  <2>2. AnswersOf \subseteq AnswersOf' /\ AnswersOf' \subseteq AnswersOf
    BY <2>1
  <2> QED
    BY <2>2
<1> QED
  BY <1>2, <1>3

\* A call accepts no request, and answers none unless it says so.
LEMMA CallKeeps ==
    ASSUME NEW m \in stream, m.topic # "replies", NEW out, Emitted(m, out), Grows(m, out)
    PROVE  /\ AcceptedOf' = AcceptedOf
           /\ AnswersOf \subseteq AnswersOf'
           /\ \A a \in AnswersOf' : \/ a \in AnswersOf
                                    \/ \E k \in DOMAIN out :
                                        out[k].topic = "replies" /\ a = AnswerIn(out[k].env)
<1>1. ASSUME NEW x \in stream'
      PROVE  \/ \E y \in stream : Same(y, x)
             \/ \E k \in DOMAIN out : x.topic = out[k].topic /\ x.env = out[k].env
  BY DEF Grows, Later, Same, Made, NewMessage
<1>2. ASSUME NEW y \in stream PROVE \E x \in stream' : Same(y, x)
  BY DEF Grows, Later, Same
<1>3. \A k \in DOMAIN out : out[k].env.corr = m.env.corr
  BY EmitsCorr DEF Emitted
<1>4. AcceptedOf' = AcceptedOf
  <2>1. ASSUME NEW c \in AcceptedOf PROVE c \in AcceptedOf'
    BY <1>2 DEF AcceptedOf, Same
  <2>2. ASSUME NEW c \in AcceptedOf' PROVE c \in AcceptedOf
    BY <1>1, <1>3 DEF AcceptedOf, Same
  <2> QED
    BY <2>1, <2>2
<1>5. AnswersOf \subseteq AnswersOf'
  BY <1>2 DEF AnswersOf, Replies, Same
<1>6. ASSUME NEW a \in AnswersOf'
      PROVE  \/ a \in AnswersOf
             \/ \E k \in DOMAIN out : out[k].topic = "replies" /\ a = AnswerIn(out[k].env)
  <2>1. PICK x \in stream' : x.topic = "replies" /\ a = AnswerIn(x.env)
    BY DEF AnswersOf, Replies, AnswerIn
  <2> QED
    BY <1>1, <2>1 DEF AnswersOf, Replies, Same
<1> QED
  BY <1>4, <1>5, <1>6

\* The chunk id of a row says which part of which document the row holds.
LEMMA ChunkNamesPart ==
    ASSUME NEW a, NEW b, RowLineage(a), RowLineage(b), a.chunk = b.chunk
    PROVE  PartOf(a) = PartOf(b)
<1> DEFINE r == a.doc
<1>1. /\ a.doc \in Requests /\ a.chunk.doc = a.doc
      /\ PartText(a.doc, a.text) /\ PartChunk(a.doc, a.chunk, a.text.n)
  BY DEF RowLineage, IsPart, PartChunk, DocFor
<1>2. /\ b.chunk.doc = b.doc
      /\ PartText(b.doc, b.text) /\ PartChunk(b.doc, b.chunk, b.text.n)
  BY DEF RowLineage, IsPart, PartChunk, DocFor
<1>3. b.doc = r
  BY <1>1, <1>2
<1>4. CASE Route(r) = "embed"
  BY <1>1, <1>2, <1>3, <1>4 DEF PartText, PartOf
<1>5. CASE Route(r) = "vision"
  BY <1>1, <1>2, <1>3, <1>5 DEF PartText, PartOf
<1>6. CASE Route(r) = "chunk"
  <2>1. PICK c, d \in Nat : a.chunk.path = <<c, 1, d, a.text.n>>
    BY <1>1, <1>6 DEF PartChunk
  <2>2. PICK c2, d2 \in Nat : b.chunk.path = <<c2, 1, d2, b.text.n>>
    BY <1>2, <1>3, <1>6 DEF PartChunk
  <2>3. a.text.n = b.text.n
    BY <2>1, <2>2
  <2> QED
    BY <1>3, <2>3 DEF PartOf
<1> QED
  BY <1>1, <1>4, <1>5, <1>6, RouteType

\* So an upsert adds a part, and takes none away.
LEMMA UpsertAdds ==
    ASSUME NEW rows, NEW row, RowLineage(row), \A old \in rows : RowLineage(old)
    PROVE  PartsIn(Upserted(rows, row)) = PartsIn(rows) \cup {PartOf(row)}
<1>1. ASSUME NEW old \in rows
      PROVE  PartOf(old) \in PartsIn(Upserted(rows, row))
  <2>1. CASE old \in Upserted(rows, row)
    BY <2>1 DEF PartsIn
  <2>2. CASE old.tenant = row.tenant /\ old.chunk = row.chunk
    <3>1. PartOf(old) = PartOf(row)
      BY <2>2, ChunkNamesPart
    <3> QED
      BY <3>1 DEF PartsIn, Upserted
  <2> QED
    BY <2>1, <2>2 DEF Upserted
<1>2. PartsIn(rows) \subseteq PartsIn(Upserted(rows, row))
  BY <1>1 DEF PartsIn
<1>3. PartOf(row) \in PartsIn(Upserted(rows, row))
  BY DEF PartsIn, Upserted
<1>4. PartsIn(Upserted(rows, row)) \subseteq PartsIn(rows) \cup {PartOf(row)}
  BY DEF PartsIn, Upserted
<1> QED
  BY <1>2, <1>3, <1>4

\* The rows of an engine, before and after an upsert.
LEMMA UpsertIndex ==
    ASSUME IInv, LInv, NEW m \in stream, NEW e \in Engines, EngineUpsert(m, e)
    PROVE  IndexOf' = [IndexOf EXCEPT ![e] = @ \cup {PartOf(RowOf(m.env))}]
<1>1. RowLineage(RowOf(m.env)) /\ \A old \in db[e] : RowLineage(old)
  BY UpsertLineage DEF LInv, MessagesInv, RowsInv, EngineUpsert, Running
<1>2. db' = [db EXCEPT ![e] = Upserted(db[e], RowOf(m.env))] /\ DOMAIN db = Engines
  BY DEF EngineUpsert, IInv, TypeOK
<1>3. PartsIn(db'[e]) = PartsIn(db[e]) \cup {PartOf(RowOf(m.env))}
  BY <1>1, <1>2, UpsertAdds
<1>4. \A f \in Engines \ {e} : PartsIn(db'[f]) = PartsIn(db[f])
  BY <1>2
<1> QED
  BY <1>3, <1>4 DEF IndexOf

\* Indexing a part of a document.
LEMMA UpsertIsAdd ==
    ASSUME IInv, LInv, NEW m \in stream, NEW e \in Engines, EngineUpsert(m, e)
    PROVE  Index!IndexNext
<1> DEFINE r == m.env.corr
           n == m.env.data.text.n
<1>1. m.topic = "engine" /\ Intent(m.env) = "upsert" /\ Lineage(m)
  BY DEF EngineUpsert, Running, LInv, MessagesInv
<1>2. r \in Requests /\ Input[r].kind = "ingest" /\ IsDerived(m.env)
  BY <1>1, EngineTask
<1>3. PartOf(RowOf(m.env)) = [doc |-> r, part |-> n]
  BY <1>2 DEF PartOf, RowOf, IsDerived, DocFor
<1>4. n \in UNION {0..Input[q].pieces : q \in Requests}
  <2>1. PartText(r, m.env.data.text)
    BY <1>2 DEF IsDerived, IsPart
  <2>2. \A q \in Requests : Input[q].pieces \in Nat
    BY InputOf
  <2>3. CASE Route(r) = "chunk"
    <3> DEFINE q == m.env.data.text.src
    <3>1. q \in Requests /\ n \in 1..Input[q].pieces
      BY <2>1, <2>3 DEF PartText
    <3>2. n \in 0..Input[q].pieces
      BY <2>2, <3>1
    <3> QED
      BY <3>1, <3>2
  <2>4. CASE Route(r) # "chunk"
    <3>1. CASE Route(r) = "embed"
      <4>1. m.env.data.text = RequestEnv(r).data.text
        BY <2>1, <3>1 DEF PartText
      <4>2. RequestEnv(r).data.text \in {NoText, Whole(r)}
        BY <1>2, RequestEnvIs
      <4>3. n = 0
        BY <4>1, <4>2 DEF NoText, Whole
      <4> QED
        BY <1>2, <2>2, <4>3
    <3>2. CASE Route(r) # "embed"
      <4>1. n = 0
        BY <2>1, <2>4, <3>2 DEF PartText
      <4> QED
        BY <1>2, <2>2, <4>1
    <3> QED
      BY <3>1, <3>2
  <2> QED
    BY <2>3, <2>4
<1>5. r \in AcceptedOf /\ r \in Kind("ingest")
  BY <1>2 DEF AcceptedOf, Kind
<1>6. AcceptedOf' = AcceptedOf /\ AnswersOf' = AnswersOf
  <2>1. AcceptedOf' = AcceptedOf /\ AnswersOf \subseteq AnswersOf' /\ AnswersOf' \subseteq AnswersOf
    BY <1>1, EngineUpsertGrows, CallKeeps
  <2> QED
    BY <2>1
<1>7. IndexOf' = [IndexOf EXCEPT ![e] = @ \cup {[doc |-> r, part |-> n]}]
  BY <1>3, UpsertIndex
<1>8. Index!Add(e, r, n)
  BY <1>5, <1>6, <1>7
     DEF Index!Add, AcceptedOf, IndexOf, PartsIn, AnswersOf, AnswerIn, Replies
<1> QED
  BY <1>4, <1>5, <1>8 DEF Index!IndexNext

\* Answering a search out of the rows of one engine.
LEMMA SearchIsAnswer ==
    ASSUME IInv, LInv, NEW m \in stream, NEW e \in Engines, EngineSearch(m, e)
    PROVE  Index!IndexNext \/ UNCHANGED Index!indexVars
<1> DEFINE s == m.env.corr
<1>1. m.topic = "engine" /\ Intent(m.env) = "search" /\ Lineage(m)
  BY EngineTask DEF EngineSearch, Running, LInv, MessagesInv
<1>2. s \in Requests /\ Input[s].kind = "search"
  BY <1>1, EngineTask, RouteType
<1>3. s \in AcceptedOf /\ s \in Kind("search")
  BY <1>2 DEF AcceptedOf, Kind
<1>4. IndexOf' = IndexOf
  BY DEF EngineSearch, IndexOf
<1>5. PICK out : Answering(m, e, out) /\ Emitted(m, out) /\ Grows(m, out)
  BY EngineSearchGrows
<1>6. PICK hits \in Nearest(e, m.env) : out = <<To("replies", ReplyEnv(m, hits))>>
  BY <1>1, <1>5 DEF Answering
<1> DEFINE new == [search |-> s, hits |-> {PartOf(hit) : hit \in hits}]
<1>7. AnswerIn(ReplyEnv(m, hits)) = new
  BY DEF AnswerIn, ReplyEnv, NewEnvelope, NoPayload
<1>8. /\ AcceptedOf' = AcceptedOf
      /\ AnswersOf' = AnswersOf \/ AnswersOf' = AnswersOf \cup {new}
  <2>1. /\ AcceptedOf' = AcceptedOf
        /\ AnswersOf \subseteq AnswersOf'
        /\ \A a \in AnswersOf' : \/ a \in AnswersOf
                                 \/ \E k \in DOMAIN out :
                                     out[k].topic = "replies" /\ a = AnswerIn(out[k].env)
    BY <1>1, <1>5, CallKeeps
  <2>2. \A k \in DOMAIN out : AnswerIn(out[k].env) = new
    BY <1>6, <1>7 DEF To
  <2> QED
    BY <2>1, <2>2
<1>9. {PartOf(hit) : hit \in hits} \subseteq
        {part \in PartsIn(db[e]) : Input[part.doc].tenant = Input[s].tenant /\ part.doc \in Requests}
  <2>1. ASSUME NEW hit \in hits
        PROVE  /\ hit \in db[e]
               /\ hit.doc \in Requests
               /\ Input[hit.doc].tenant = Input[s].tenant
    <3>1. hit \in db[e] /\ hit.tenant = m.env.tenant
      BY DEF Nearest, kSubset, Comparable, RowsOf
    <3>2. RowLineage(hit)
      BY <3>1 DEF LInv, RowsInv
    <3>3. m.env.tenant = Input[s].tenant
      BY DEF IInv, EnvOK
    <3> QED
      BY <3>1, <3>2, <3>3 DEF RowLineage
  <2> QED
    BY <2>1 DEF PartsIn, PartOf
<1> HIDE DEF new
<1>10. CASE AnswersOf' = AnswersOf
  BY <1>4, <1>8, <1>10
     DEF Index!indexVars, AcceptedOf, IndexOf, PartsIn, AnswersOf, AnswerIn, Replies
<1>11. CASE AnswersOf' = AnswersOf \cup {new}
  <2> DEFINE answer == {PartOf(hit) : hit \in hits}
  <2>1. answer \in SUBSET {part \in IndexOf[e] :
            [r \in Requests |-> Input[r].tenant][part.doc] = [r \in Requests |-> Input[r].tenant][s]}
    BY <1>2, <1>9 DEF IndexOf
  <2>2. new = [search |-> s, hits |-> answer]
    BY DEF new
  <2> HIDE DEF answer
  <2>3. Index!Answer(e, s)
    BY <1>3, <1>4, <1>8, <1>11, <2>1, <2>2
       DEF Index!Answer, AcceptedOf, IndexOf, PartsIn, AnswersOf, AnswerIn, Replies
  <2> QED
    BY <1>3, <2>3 DEF Index!IndexNext
<1> QED
  BY <1>8, <1>10, <1>11

\* A step that the mapping does not see.
LEMMA Stutter ==
    ASSUME AcceptedOf' = AcceptedOf, AnswersOf' = AnswersOf, IndexOf' = IndexOf
    PROVE  UNCHANGED Index!indexVars
  BY DEF Index!indexVars, AcceptedOf, IndexOf, PartsIn, AnswersOf, AnswerIn, Replies

\* A router's or worker's call.
LEMMA WorkerStutters ==
    ASSUME IInv, NEW m \in stream, Router(m) \/ Chunker(m) \/ Vision(m) \/ Embedder(m)
    PROVE  UNCHANGED Index!indexVars
<1>1. PICK out : Emitted(m, out) /\ Grows(m, out)
  BY RouterGrows, ChunkerGrows, VisionGrows, EmbedderGrows
<1>2. m.topic \in {"ingress", "chunk", "vision", "embed"}
  BY DEF Router, Chunker, Vision, Embedder, Running
<1>3. \A k \in DOMAIN out : out[k].topic # "replies"
  BY <1>1, <1>2, AnswerOf DEF Emitted
<1>4. AcceptedOf' = AcceptedOf /\ AnswersOf \subseteq AnswersOf' /\ AnswersOf' \subseteq AnswersOf
  BY <1>1, <1>2, <1>3, CallKeeps
<1>5. IndexOf' = IndexOf
  BY DEF Router, Chunker, Vision, Embedder, Handle, ReadBreaks, IndexOf
<1> QED
  BY <1>4, <1>5, Stutter

\* Submitting a request.
LEMMA SubmitIsAccept ==
    ASSUME IInv, NEW r \in Requests, Submit(r)
    PROVE  Index!IndexNext \/ UNCHANGED Index!indexVars
<1> DEFINE root == NewMessage(<<>>, "ingress", RequestEnv(r))
<1>1. stream' = stream \/ stream' = stream \cup {root}
  BY DEF Submit
<1>2. root.env.corr = r /\ root.topic = "ingress"
  BY RequestEnvIs DEF NewMessage
<1> HIDE DEF root
<1>3. IndexOf' = IndexOf
  BY DEF Submit, IndexOf
<1>4. AnswersOf' = AnswersOf
  BY <1>1, <1>2 DEF AnswersOf, Replies
<1>5. AcceptedOf' = AcceptedOf \/ AcceptedOf' = AcceptedOf \cup {r}
  BY <1>1, <1>2 DEF AcceptedOf
<1>6. CASE AcceptedOf' = AcceptedOf \cup {r}
  <2>1. r \in Kind("ingest") \cup Kind("search")
    BY RouteType DEF Kind
  <2>2. Index!Accept(r)
    BY <1>3, <1>4, <1>6
       DEF Index!Accept, AcceptedOf, IndexOf, PartsIn, AnswersOf, AnswerIn, Replies
  <2> QED
    BY <2>1, <2>2 DEF Index!IndexNext
<1> QED
  BY <1>3, <1>4, <1>5, <1>6, Stutter

\* Losing the rows of some engines.
LEMMA RestartIsForget ==
    ASSUME IInv, Reboot \/ \E e \in Engines : EngineRestart(e)
    PROVE  Index!IndexNext
<1>1. PICK lost \in SUBSET Engines :
        db' = [e \in Engines |-> IF e \in lost THEN {} ELSE db[e]]
  <2>1. CASE Reboot
    <3>1. db' = [e \in Engines |-> IF e \in Engines THEN {} ELSE db[e]]
      BY <2>1 DEF Reboot
    <3> QED
      BY <3>1
  <2>2. ASSUME NEW e \in Engines, EngineRestart(e)
        PROVE  \E lost \in SUBSET Engines :
                    db' = [f \in Engines |-> IF f \in lost THEN {} ELSE db[f]]
    <3>1. db' = [f \in Engines |-> IF f \in {e} THEN {} ELSE db[f]]
      BY <2>2 DEF EngineRestart, IInv, TypeOK
    <3> QED
      BY <3>1
  <2> QED
    BY <2>1, <2>2
<1>2. PartsIn({}) = {}
  BY DEF PartsIn
<1>3. IndexOf' = [e \in Engines |-> IF e \in lost THEN {} ELSE IndexOf[e]]
  BY <1>1, <1>2 DEF IndexOf
<1>4. AcceptedOf' = AcceptedOf /\ AnswersOf' = AnswersOf
  BY RestartRecounts, RebootRecounts, RecountedStutters
<1>5. Index!Forget(lost)
  BY <1>3, <1>4
     DEF Index!Forget, AcceptedOf, IndexOf, PartsIn, AnswersOf, AnswerIn, Replies
<1> QED
  BY <1>5 DEF Index!IndexNext

\* The pipeline implements the index: whatever happens to its events, only
\* parts of documents in the stream are indexed, and an answer is what some
\* engine had for the tenant of a search in the stream when it answered.
THEOREM Implements == Spec => ImplementsTenantIndex
<1>1. Init => Index!IndexInit
  <2> SUFFICES ASSUME Init PROVE Index!IndexInit
    OBVIOUS
  <2>1. AcceptedOf = {} /\ AnswersOf = {} /\ IndexOf = [e \in Engines |-> {}]
    BY DEF Init, AcceptedOf, AnswersOf, Replies, IndexOf, PartsIn
  <2> QED
    BY <2>1 DEF Index!IndexInit, AcceptedOf, IndexOf, PartsIn, AnswersOf, AnswerIn, Replies
<1>2. IInv /\ LInv /\ [Next]_vars => [Index!IndexNext]_(Index!indexVars)
  <2> SUFFICES ASSUME IInv, LInv, [Next]_vars
               PROVE  Index!IndexNext \/ UNCHANGED Index!indexVars
    OBVIOUS
  <2>1. ASSUME Recounted, db' = db PROVE UNCHANGED Index!indexVars
    BY <2>1, RecountedStutters, Stutter DEF IndexOf
  <2>2. CASE UNCHANGED vars
    BY <2>1, <2>2, UnchangedRecounts DEF vars
  <2>3. ASSUME NEW r \in Requests, Upload(r) PROVE UNCHANGED Index!indexVars
    BY <2>1, <2>3, UnchangedRecounts DEF Upload
  <2>4. ASSUME NEW m \in stream, DeliverTask(m) \/ Hang(m) PROVE UNCHANGED Index!indexVars
    BY <2>1, <2>4, DeliverRecounts, UnchangedRecounts DEF DeliverTask, Hang
  <2>5. ASSUME NEW m \in stream, NEW e \in Engines, EngineUpsert(m, e) \/ EngineSearch(m, e)
        PROVE  Index!IndexNext \/ UNCHANGED Index!indexVars
    BY <2>5, UpsertIsAdd, SearchIsAnswer
  <2> QED
    BY <2>2, <2>3, <2>4, <2>5, WorkerStutters, SubmitIsAccept, RestartIsForget DEF Next, Consume
<1> QED
  BY <1>1, <1>2, Inductive, LineageInductive, PTL DEF Spec, ImplementsTenantIndex, Index!IndexSpec

=============================================================================
