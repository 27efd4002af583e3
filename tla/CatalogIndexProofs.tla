------------------------- MODULE CatalogIndexProofs -------------------------
(***************************************************************************)
(* Theorems about CatalogIndex for any number of products, chunks, jobs,   *)
(* edits and restarts: what the variables hold, with overlapping jobs too, *)
(* and what callers that run one job at a time for a product rely on for   *)
(* that product, whatever jobs of other products overlap with theirs.      *)
(***************************************************************************)
EXTENDS CatalogIndex, TLAPS

-----------------------------------------------------------------------------
(* The inductive invariant.                                                *)

\* What a job has in its locals at each of its stages, q being the job.
Shape(q) ==
    /\ q.pc \in {"idle", "done"} <=> q.kind = "none"
    /\ q.pc \in {"idle", "fetch"} => q.rows = EmptyTable
    /\ q.pc = "fetch" => q.kind \in {"reindex", "all", "images"}
    /\ q.pc = "drop" => q.kind \in {"reindex", "all", "delete"}
    /\ q.pc = "upsert" => q.kind \in {"reindex", "all"}
    /\ q.pc = "bm25" => q.kind \in {"reindex", "all", "delete"}
    /\ q.pc = "drop_image" => q.kind = "delete"
    /\ q.pc = "rebuild" => q.kind = "all" /\ Bm25
    /\ q.pc \in {"caption", "images"} => q.kind = "images"
    /\ q.kind \in {"reindex", "delete"} => q.product \in Product
    /\ q.kind = "delete" => q.rows = EmptyTable /\ q.todo \subseteq {q.product}
    /\ q.kind = "reindex" => \A p \in Product \ {q.product} : q.rows[p] = None
    /\ q.kind = "reindex" /\ q.pc # "fetch" => q.rows[q.product] # None
    /\ q.kind # "delete" => \A p \in q.todo : q.rows[p] # None
    /\ q.pc \notin {"drop", "caption"} => q.todo = {}

TypeInv == TypeOK /\ \A j \in Job : Shape(job[j])

\* What one product has in the stores.
ImageOf(p) == {d \in image : d.product = p}

\* The conditions of InSync on it.
UpToDate(p) ==
    IF row[p] = None THEN TextOf(p) = {} /\ ImageOf(p) = {}
    ELSE TextOf(p) = DocsOf(p, row[p])

Bm25Row(p) == IF Bm25 THEN row[p] ELSE None

\* The condition of NoOrphanChunk on it.
OneRow(docs) == \A d, e \in docs : d.row = e.row

Current(p) ==
    /\ p \notin dirty => UpToDate(p)
    /\ p \notin stale => bm25[p] = Bm25Row(p)
    /\ OneRow(TextOf(p))

\* One job at a time has to do with it.
Serial(p) == \A i, j \in Job : Touches(i, p) /\ Touches(j, p) => i = j

\* Job q brings the text index up to date: a row that was not edited since is the
\* one it has, what it dropped is gone until it is written again, and a product it
\* touched or somebody edited is not up to date until it ends.
Indexing(q, p) ==
    /\ p \in q.fresh => q.rows[p] = row[p]
    /\ q.rows[p] # None /\ p \notin q.todo =>
          /\ p \in dirty
          /\ TextOf(p) = IF q.pc = "bm25" THEN DocsOf(p, q.rows[p]) ELSE {}
    /\ p \notin q.fresh => p \in dirty /\ p \in stale

\* It rebuilds the BM25 index from the rows it has just read again.
Rebuilding(q, p) ==
    /\ p \notin q.fresh => p \in dirty /\ p \in stale
    /\ p \in q.fresh => q.rows[p] = row[p]
    /\ p \in q.fresh /\ row[p] # None => TextOf(p) = DocsOf(p, row[p])

\* It removes the product from the indexes, one after the other.
Deleting(q, p) ==
    /\ p \in deleted
    /\ q.pc # "drop" => TextOf(p) = {}
    /\ q.pc = "bm25" => ImageOf(p) = {}

\* It describes the images of the rows it read.
Imaging(q, p) == q.rows[p] # None /\ row[p] = None => p \in dirty

JobInStep(q, p) ==
    /\ q.kind \in {"reindex", "all"} /\ q.pc \in {"drop", "upsert", "bm25"}
          => Indexing(q, p)
    /\ q.pc = "rebuild" => Rebuilding(q, p)
    /\ q.kind = "delete" => Deleting(q, p)
    /\ q.pc \in {"caption", "images"} => Imaging(q, p)

Promise(j, p) == Touches(j, p) => JobInStep(job[j], p)

InStep(p) == Serial(p) /\ Current(p) /\ \A j \in Job : Promise(j, p)

ShopInv ==
    /\ \A p \in deleted : row[p] = None
    /\ ~Bm25 => bm25 = EmptyTable

SyncInv == ShopInv /\ \A p \in OneAtATime : InStep(p)

IInv == TypeInv /\ SyncInv

-----------------------------------------------------------------------------
(* Type correctness, whatever overlaps.                                    *)

\* Rows and documents.
LEMMA Tables ==
    /\ EmptyTable \in Table
    /\ \A t \in Table, p \in Product : t[p] # None => t[p] \in Row
    /\ \A t \in Table, p \in Product, r \in Row : [t EXCEPT ![p] = r] \in Table
    /\ \A t \in Table : DOMAIN t = Product
BY DEF EmptyTable, Table

LEMMA RowParts == \A r \in Row : r.parts \in Nat /\ PartsOf(r) \subseteq Part
<1> SUFFICES ASSUME NEW r \in Row PROVE r.parts \in Nat /\ PartsOf(r) \subseteq Part
  OBVIOUS
<1>1. r.parts \in Parts /\ r.parts \in Nat
  BY CatalogIndexAssumption DEF Row
<1>2. 0..r.parts \subseteq Part
  BY <1>1 DEF Part
<1>3. PartsOf(r) \subseteq 0..r.parts
  BY <1>1 DEF PartsOf
<1> QED  BY <1>1, <1>2, <1>3

LEMMA DocsTyped ==
    ASSUME NEW rows \in Table
    PROVE  DocsOfTable(rows) \in SUBSET Doc
<1>1. ASSUME NEW p \in Product, rows[p] # None
      PROVE  DocsOf(p, rows[p]) \subseteq Doc
  BY <1>1, Tables, RowParts DEF DocsOf, Doc
<1> QED  BY <1>1 DEF DocsOfTable

LEMMA UpsertTyped ==
    ASSUME NEW store \in SUBSET Doc, NEW docs \in SUBSET Doc
    PROVE  Upsert(store, docs) \in SUBSET Doc
BY DEF Upsert

\* What the jobs are.
JobInv == job \in [Job -> JobState] /\ \A j \in Job : Shape(job[j])

LEMMA JobReplaced ==
    ASSUME JobInv, NEW j \in Job, NEW q \in JobState, Shape(q),
           job' = [job EXCEPT ![j] = q]
    PROVE  JobInv'
BY DEF JobInv

LEMMA EndedJob ==
    ASSUME NEW status \in {"ok", "404", "500"}
    PROVE  LET q == [NoJob EXCEPT !.pc = "done", !.status = status]
           IN  q \in JobState /\ Shape(q)
<1> DEFINE q == [NoJob EXCEPT !.pc = "done", !.status = status]
<1>1. NoJob \in JobState
  BY Tables DEF NoJob, JobState, JobPc
<1>2. q \in JobState
  BY <1>1 DEF JobState, JobPc
<1>3. q.kind = "none" /\ q.pc = "done" /\ q.rows = EmptyTable /\ q.todo = {}
  BY <1>1 DEF JobState, NoJob
<1> HIDE DEF q
<1>4. Shape(q)
  BY <1>3 DEF Shape
<1> QED  BY <1>2, <1>4 DEF q

LEMMA JobFinished ==
    ASSUME JobInv, NEW j \in Job, NEW status \in {"ok", "404", "500"}, Finish(j, status)
    PROVE  JobInv'
<1> DEFINE q == [NoJob EXCEPT !.pc = "done", !.status = status]
<1>1. q \in JobState /\ Shape(q)
  BY EndedJob
<1>2. job' = [job EXCEPT ![j] = q]
  BY DEF Finish
<1> HIDE DEF q
<1> QED  BY <1>1, <1>2, JobReplaced

\* Rows that somebody edits outdate what the jobs have of them.
LEMMA JobsOutdated ==
    ASSUME JobInv, NEW p, Outdated(p)
    PROVE  JobInv'
<1> DEFINE q(j) == [job[j] EXCEPT !.fresh = @ \ {p}]
<1>1. ASSUME NEW j \in Job PROVE q(j) \in JobState /\ Shape(q(j))
  <2>1. job[j] \in JobState /\ Shape(job[j])
    BY DEF JobInv
  <2>2. q(j) \in JobState
    BY <2>1 DEF JobState
  <2>3. /\ q(j).kind = job[j].kind /\ q(j).pc = job[j].pc /\ q(j).rows = job[j].rows
        /\ q(j).product = job[j].product /\ q(j).todo = job[j].todo
    BY <2>1 DEF JobState
  <2> HIDE DEF q
  <2>4. Shape(q(j))
    BY <2>1, <2>3 DEF Shape
  <2> QED  BY <2>2, <2>4
<1>2. job' = [j \in Job |-> q(j)]
  BY DEF Outdated
<1> HIDE DEF q
<1> QED  BY <1>1, <1>2 DEF JobInv

\* The fields of a job, and what a job becomes whose fields they are.
LEMMA JobFields ==
    ASSUME JobInv, NEW j \in Job
    PROVE  /\ job[j] \in JobState /\ Shape(job[j])
           /\ job[j].rows \in Table /\ job[j].todo \in SUBSET Product
           /\ job[j].fresh \in SUBSET Product /\ job[j].pc \in JobPc
           /\ job[j].kind \in JobKinds \cup {"none"}
           /\ job[j].product \in Product \cup {None}
BY DEF JobInv, JobState

LEMMA StartedJob ==
    ASSUME JobInv, NEW j \in Job, Start(j)
    PROVE  JobInv'
<1>0. /\ job[j] \in JobState /\ Shape(job[j]) /\ job[j].pc = "idle"
      /\ job[j].rows = EmptyTable
  BY JobFields DEF Start, At, Shape
<1>1. PICK k \in JobKinds, p \in Product \cup {None} :
        /\ p # None <=> k \in {"reindex", "delete"}
        /\ k = "delete" => p \in deleted
        /\ job' = [job EXCEPT ![j] =
               [@ EXCEPT !.kind = k, !.product = p,
                         !.pc = IF k = "delete" THEN "drop" ELSE "fetch",
                         !.todo = IF k = "delete" THEN {p} ELSE {},
                         !.fresh = IF k = "delete" THEN {p} ELSE {}]]
  BY DEF Start
<1> DEFINE q == [job[j] EXCEPT !.kind = k, !.product = p,
                         !.pc = IF k = "delete" THEN "drop" ELSE "fetch",
                         !.todo = IF k = "delete" THEN {p} ELSE {},
                         !.fresh = IF k = "delete" THEN {p} ELSE {}]
<1>2. k \in {"reindex", "delete", "all", "images"}
  BY CatalogIndexAssumption
<1>3. k \in {"reindex", "delete"} => p \in Product
  BY <1>1
<1>4. q \in JobState
  BY <1>0, <1>3 DEF JobState, JobPc
<1>5. /\ q.kind = k /\ q.product = p /\ q.rows = EmptyTable
      /\ q.pc = (IF k = "delete" THEN "drop" ELSE "fetch")
      /\ q.todo = (IF k = "delete" THEN {p} ELSE {})
  BY <1>0 DEF JobState
<1>6. job' = [job EXCEPT ![j] = q]
  BY <1>1
<1> HIDE DEF q
<1>7. Shape(q)
  BY <1>2, <1>3, <1>5 DEF Shape, EmptyTable
<1> QED  BY <1>4, <1>6, <1>7, JobReplaced

\* A job that only moves on.
LEMMA JobMovedOn ==
    ASSUME JobInv, NEW j \in Job, NEW label \in JobPc, Goto(j, label),
           label = "bm25", job[j].pc \in {"upsert", "drop_image"}
    PROVE  JobInv'
<1> DEFINE q == [job[j] EXCEPT !.pc = label]
<1>0. job[j] \in JobState /\ Shape(job[j])
  BY JobFields
<1>1. q \in JobState
  BY <1>0 DEF JobState
<1>2. /\ q.kind = job[j].kind /\ q.product = job[j].product /\ q.rows = job[j].rows
      /\ q.todo = job[j].todo /\ q.pc = label
  BY <1>0 DEF JobState
<1>3. job' = [job EXCEPT ![j] = q]
  BY DEF Goto
<1> HIDE DEF q
<1>4. Shape(q)
  BY <1>0, <1>2 DEF Shape
<1> QED  BY <1>1, <1>3, <1>4, JobReplaced

LEMMA FetchedOne ==
    ASSUME TypeInv, JobInv, NEW j \in Job, FetchOne(j)
    PROVE  JobInv'
<1> DEFINE b == job[j].product
           r == row[b]
           q == [job[j] EXCEPT !.pc = "drop", !.rows[b] = r, !.todo = {b}, !.fresh = {b}]
<1>0. /\ job[j] \in JobState /\ Shape(job[j]) /\ job[j].kind = "reindex"
      /\ job[j].rows = EmptyTable /\ b \in Product
  BY JobFields DEF FetchOne, At, Shape
<1>1. CASE Finish(j, "404") \/ Finish(j, "500")
  BY <1>1, JobFinished
<1>2. CASE ~(Finish(j, "404") \/ Finish(j, "500"))
  <2>1. r # None /\ job' = [job EXCEPT ![j].pc = "drop", ![j].rows[b] = r,
                                       ![j].todo = Scope(j), ![j].fresh = Scope(j)]
    BY <1>2 DEF FetchOne
  <2>2. Scope(j) = {b}
    BY <1>0 DEF Scope, Covers
  <2>3. job' = [job EXCEPT ![j] = q]
    BY <2>1, <2>2
  <2>4. [EmptyTable EXCEPT ![b] = r] \in Table
    BY <1>0, <2>1, Tables DEF TypeInv, TypeOK
  <2>5. q \in JobState
    BY <1>0, <2>4 DEF JobState, JobPc
  <2>6. /\ q.kind = "reindex" /\ q.product = b /\ q.todo = {b} /\ q.pc = "drop"
        /\ q.rows = [EmptyTable EXCEPT ![b] = r]
    BY <1>0 DEF JobState
  <2> HIDE DEF q, r
  <2>7. /\ \A p \in Product \ {b} : q.rows[p] = None
        /\ q.rows[b] = r
    BY <1>0, <2>6 DEF EmptyTable
  <2> HIDE DEF b
  <2>8. Shape(q)
    BY <1>0, <2>1, <2>6, <2>7 DEF Shape
  <2> QED  BY <2>3, <2>5, <2>8, JobReplaced
<1> QED  BY <1>1, <1>2

LEMMA FetchedAll ==
    ASSUME TypeInv, JobInv, NEW j \in Job, FetchAll(j)
    PROVE  JobInv'
<1> DEFINE there == {p \in Product : row[p] # None}
           q == [job[j] EXCEPT !.pc = IF there = {} THEN "bm25" ELSE "drop",
                               !.rows = row, !.todo = there, !.fresh = Product]
<1>0. job[j] \in JobState /\ Shape(job[j]) /\ job[j].kind = "all"
  BY JobFields DEF FetchAll, At
<1>1. CASE Finish(j, "500")
  BY <1>1, JobFinished
<1>2. CASE ~Finish(j, "500")
  <2>1. job' = [job EXCEPT ![j] = q]
    BY <1>2 DEF FetchAll
  <2>2. row \in Table
    BY DEF TypeInv, TypeOK
  <2>3. q \in JobState
    BY <1>0, <2>2 DEF JobState, JobPc
  <2>4. /\ q.kind = "all" /\ q.todo = there /\ q.rows = row
        /\ q.pc = IF there = {} THEN "bm25" ELSE "drop"
    BY <1>0 DEF JobState
  <2> HIDE DEF q
  <2>5. Shape(q)
    BY <2>4 DEF Shape
  <2> QED  BY <2>1, <2>3, <2>5, JobReplaced
<1> QED  BY <1>1, <1>2

LEMMA DroppedOne ==
    ASSUME JobInv, NEW j \in Job, DropOld(j)
    PROVE  JobInv'
<1>0. /\ job[j] \in JobState /\ Shape(job[j]) /\ job[j].pc = "drop"
      /\ job[j].todo \in SUBSET Product
      /\ job[j].kind \in {"reindex", "all", "delete"}
  BY JobFields DEF DropOld, At, Shape
<1>1. PICK p \in job[j].todo :
        job' = [job EXCEPT
                  ![j].todo = @ \ {p},
                  ![j].pc = IF job[j].todo # {p} THEN "drop"
                            ELSE IF job[j].kind = "delete" THEN "drop_image"
                            ELSE "upsert"]
  BY DEF DropOld
<1> DEFINE label == IF job[j].todo # {p} THEN "drop"
                    ELSE IF job[j].kind = "delete" THEN "drop_image" ELSE "upsert"
           q == [job[j] EXCEPT !.todo = @ \ {p}, !.pc = label]
<1>2. job' = [job EXCEPT ![j] = q]
  BY <1>1
<1>3. label \in {"drop", "drop_image", "upsert"}
      /\ (label = "drop_image" => job[j].kind = "delete")
      /\ (label = "upsert" => job[j].kind # "delete")
      /\ (label # "drop" => job[j].todo \ {p} = {})
  OBVIOUS
<1> HIDE DEF label
<1>4. q \in JobState
  BY <1>0, <1>3 DEF JobState, JobPc
<1>5. /\ q.kind = job[j].kind /\ q.product = job[j].product /\ q.rows = job[j].rows
      /\ q.todo = job[j].todo \ {p} /\ q.pc = label
  BY <1>0 DEF JobState
<1> HIDE DEF q
<1>6. Shape(q)
  BY <1>0, <1>3, <1>5 DEF Shape
<1> QED  BY <1>2, <1>4, <1>6, JobReplaced

LEMMA ReadForBm25 ==
    ASSUME TypeInv, JobInv, NEW j \in Job, FetchForBm25(j)
    PROVE  JobInv'
<1>0. /\ job[j] \in JobState /\ Shape(job[j]) /\ job[j].kind = "all"
      /\ job[j].pc = "bm25"
  BY JobFields DEF FetchForBm25, At
<1>1. CASE Finish(j, "ok")
  BY <1>1, JobFinished
<1>2. CASE ~Finish(j, "ok")
  <2> DEFINE q == [job[j] EXCEPT !.pc = "rebuild", !.rows = row]
  <2>1. Bm25 /\ job' = [job EXCEPT ![j] = q]
    BY <1>2 DEF FetchForBm25
  <2>2. row \in Table
    BY DEF TypeInv, TypeOK
  <2>3. q \in JobState
    BY <1>0, <2>2 DEF JobState, JobPc
  <2>4. /\ q.kind = "all" /\ q.todo = {} /\ q.rows = row /\ q.pc = "rebuild"
    BY <1>0 DEF JobState, Shape
  <2> HIDE DEF q
  <2>5. Shape(q)
    BY <2>1, <2>4 DEF Shape
  <2> QED  BY <2>1, <2>3, <2>5, JobReplaced
<1> QED  BY <1>1, <1>2

LEMMA ReadForImages ==
    ASSUME TypeInv, JobInv, NEW j \in Job, FetchForImages(j)
    PROVE  JobInv'
<1>0. /\ job[j] \in JobState /\ Shape(job[j]) /\ job[j].kind = "images"
  BY JobFields DEF FetchForImages, At
<1>1. PICK with \in SUBSET {p \in Product : row[p] # None} :
        job' = [job EXCEPT
                  ![j].pc = IF {p \in with : ~row[p].captioned} = {}
                            THEN "images" ELSE "caption",
                  ![j].todo = {p \in with : ~row[p].captioned},
                  ![j].rows = [p \in Product |-> IF p \in with THEN row[p] ELSE None]]
  BY DEF FetchForImages
<1> DEFINE blank == {p \in with : ~row[p].captioned}
           rows == [p \in Product |-> IF p \in with THEN row[p] ELSE None]
           q == [job[j] EXCEPT !.pc = IF blank = {} THEN "images" ELSE "caption",
                               !.todo = blank, !.rows = rows]
<1>2. job' = [job EXCEPT ![j] = q]
  BY <1>1
<1>3. rows \in Table /\ blank \in SUBSET Product /\ \A p \in blank : rows[p] # None
  BY DEF TypeInv, TypeOK, Table
<1> HIDE DEF blank, rows
<1>4. q \in JobState
  BY <1>0, <1>3 DEF JobState, JobPc
<1>5. /\ q.kind = "images" /\ q.todo = blank /\ q.rows = rows
      /\ q.pc = IF blank = {} THEN "images" ELSE "caption"
  BY <1>0 DEF JobState
<1> HIDE DEF q
<1>6. Shape(q)
  BY <1>3, <1>5 DEF Shape
<1> QED  BY <1>2, <1>4, <1>6, JobReplaced

LEMMA CaptionedOne ==
    ASSUME JobInv, NEW j \in Job, CaptionImage(j)
    PROVE  JobInv'
<1>0. /\ job[j] \in JobState /\ Shape(job[j]) /\ job[j].kind = "images"
      /\ job[j].pc = "caption" /\ job[j].rows \in Table
      /\ job[j].todo \in SUBSET Product /\ \A p \in job[j].todo : job[j].rows[p] # None
  BY JobFields DEF CaptionImage, At, Shape
<1>1. PICK p \in job[j].todo, captioned \in Tagging :
        LET next == [job[j] EXCEPT !.todo = @ \ {p},
                        !.pc = IF job[j].todo = {p} THEN "images" ELSE "caption",
                        !.rows[p].captioned = captioned]
            others == [i \in Job |-> [job[i] EXCEPT !.fresh = @ \ {p}]]
        IN  IF captioned THEN job' = [others EXCEPT ![j] = next]
            ELSE job' = [job EXCEPT ![j] = next]
  BY DEF CaptionImage
<1> DEFINE label == IF job[j].todo = {p} THEN "images" ELSE "caption"
           newRow == [job[j].rows[p] EXCEPT !.captioned = captioned]
           newRows == [job[j].rows EXCEPT ![p] = newRow]
           q == [job[j] EXCEPT !.todo = @ \ {p}, !.pc = label, !.rows = newRows]
           others == [i \in Job |-> [job[i] EXCEPT !.fresh = @ \ {p}]]
<1>2. IF captioned THEN job' = [others EXCEPT ![j] = q] ELSE job' = [job EXCEPT ![j] = q]
  BY <1>1
<1>3. /\ newRow \in Row /\ newRows \in Table
      /\ \A x \in Product \ {p} : newRows[x] = job[j].rows[x]
  <2>1. job[j].rows[p] \in Row
    BY <1>0, Tables
  <2>2. newRow \in Row
    BY <2>1 DEF Row, Tagging
  <2> HIDE DEF newRow
  <2> QED  BY <1>0, <2>2, Tables DEF Table
<1>4. label \in {"images", "caption"} /\ (label = "images" => job[j].todo \ {p} = {})
  OBVIOUS
<1> HIDE DEF label, newRow, newRows
<1>5. q \in JobState
  BY <1>0, <1>3, <1>4 DEF JobState, JobPc
<1>6. /\ q.kind = "images" /\ q.todo = job[j].todo \ {p} /\ q.rows = newRows
      /\ q.pc = label
  BY <1>0 DEF JobState
<1> HIDE DEF q
<1>7. Shape(q)
  <2>1. \A x \in q.todo : q.rows[x] # None
    BY <1>0, <1>3, <1>6
  <2> QED  BY <1>4, <1>6, <2>1 DEF Shape
<1>8. CASE ~captioned
  BY <1>2, <1>5, <1>7, <1>8, JobReplaced
<1>9. CASE captioned
  <2>1. ASSUME NEW i \in Job
        PROVE  others[i] \in JobState /\ Shape(others[i])
    <3>1. job[i] \in JobState /\ Shape(job[i])
      BY JobFields
    <3>2. others[i] = [job[i] EXCEPT !.fresh = @ \ {p}]
      OBVIOUS
    <3> HIDE DEF others
    <3>3. others[i] \in JobState
      BY <3>1, <3>2 DEF JobState
    <3>4. /\ others[i].kind = job[i].kind /\ others[i].pc = job[i].pc
          /\ others[i].rows = job[i].rows /\ others[i].product = job[i].product
          /\ others[i].todo = job[i].todo
      BY <3>1, <3>2 DEF JobState
    <3> QED  BY <3>1, <3>3, <3>4 DEF Shape
  <2>2. DOMAIN others = Job
    OBVIOUS
  <2> HIDE DEF others
  <2>3. job' = [i \in Job |-> IF i = j THEN q ELSE others[i]]
    BY <1>2, <1>9, <2>2 DEF others
  <2> QED  BY <1>5, <1>7, <2>1, <2>3 DEF JobInv
<1> QED  BY <1>8, <1>9

LEMMA JobsRestarted ==
    ASSUME JobInv, Restart
    PROVE  JobInv'
<1> DEFINE q == [NoJob EXCEPT !.pc = "done", !.status = "500"]
<1>1. q \in JobState /\ Shape(q)
  BY EndedJob
<1>2. job' = [j \in Job |-> IF Running(j) /\ job[j].kind # "images" THEN q ELSE job[j]]
  BY DEF Restart
<1> HIDE DEF q
<1> QED  BY <1>1, <1>2 DEF JobInv

\* Between two steps a job is one whose locals fit its stage.
LEMMA JobsNext == TypeInv /\ [Next]_vars => JobInv'
<1> SUFFICES ASSUME TypeInv, [Next]_vars PROVE JobInv'
  OBVIOUS
<1>0. JobInv
  BY DEF TypeInv, TypeOK, JobInv
<1>1. ASSUME NEW p \in Product, EditRow(p) \/ DeleteRow(p) PROVE JobInv'
  BY <1>0, <1>1, JobsOutdated DEF EditRow, DeleteRow
<1>2. ASSUME NEW j \in Job, Start(j) PROVE JobInv'
  BY <1>0, <1>2, StartedJob
<1>3. ASSUME NEW j \in Job, JobStep(j) PROVE JobInv'
  <2>1. CASE FetchOne(j)
    BY <1>0, <2>1, FetchedOne
  <2>2. CASE FetchAll(j)
    BY <1>0, <2>2, FetchedAll
  <2>3. CASE DropOld(j)
    BY <1>0, <2>3, DroppedOne
  <2>4. CASE UpsertText(j) \/ DropImage(j)
    BY <1>0, <2>4, JobMovedOn DEF UpsertText, DropImage, At, JobPc
  <2>5. CASE UpdateBm25(j) \/ RebuildBm25(j) \/ UpsertImages(j) \/ Fail(j)
    BY <1>0, <2>5, JobFinished DEF UpdateBm25, RebuildBm25, UpsertImages, Fail
  <2>6. CASE FetchForBm25(j)
    BY <1>0, <2>6, ReadForBm25
  <2>7. CASE FetchForImages(j)
    BY <1>0, <2>7, ReadForImages
  <2>8. CASE CaptionImage(j)
    BY <1>0, <2>8, CaptionedOne
  <2> QED  BY <1>3, <2>1, <2>2, <2>3, <2>4, <2>5, <2>6, <2>7, <2>8 DEF JobStep
<1>4. CASE Restart
  BY <1>0, <1>4, JobsRestarted
<1>5. CASE UNCHANGED vars
  BY <1>0, <1>5 DEF vars, JobInv
<1> QED  BY <1>1, <1>2, <1>3, <1>4, <1>5 DEF Next, Finished

LEMMA TypeInit == Init => TypeInv
<1> SUFFICES ASSUME Init PROVE TypeInv
  OBVIOUS
<1>1. NoJob \in JobState
  BY Tables DEF NoJob, JobState, JobPc
<1>2. Shape(NoJob)
  BY DEF NoJob, Shape
<1>3. job \in [Job -> JobState] /\ \A j \in Job : Shape(job[j])
  BY <1>1, <1>2 DEF Init
<1>4. edits \in 0..MaxEdits /\ restarts \in 0..MaxRestarts
  BY CatalogIndexAssumption DEF Init
<1> QED  BY <1>3, <1>4, Tables DEF Init, TypeInv, TypeOK

LEMMA TypeNext == TypeInv /\ [Next]_vars => TypeInv'
<1> SUFFICES ASSUME TypeInv, [Next]_vars PROVE TypeInv'
  OBVIOUS
<1>0. JobInv'
  BY JobsNext
<1>1. /\ row \in Table /\ deleted \in SUBSET Product /\ text \in SUBSET Doc
      /\ image \in SUBSET Doc /\ bm25 \in Table /\ {dirty, stale} \subseteq SUBSET Product
      /\ edits \in 0..MaxEdits /\ restarts \in 0..MaxRestarts
      /\ edits \in Nat /\ restarts \in Nat /\ MaxEdits \in Nat /\ MaxRestarts \in Nat
  BY CatalogIndexAssumption DEF TypeInv, TypeOK
<1>2. JobInv
  BY DEF TypeInv, TypeOK, JobInv
<1> DEFINE Rest == /\ row \in Table /\ deleted \in SUBSET Product /\ text \in SUBSET Doc
                   /\ image \in SUBSET Doc /\ bm25 \in Table
                   /\ {dirty, stale} \subseteq SUBSET Product
                   /\ edits \in 0..MaxEdits /\ restarts \in 0..MaxRestarts
<1> SUFFICES Rest'
  BY <1>0 DEF TypeInv, TypeOK, JobInv
<1>3. ASSUME NEW p \in Product, EditRow(p) PROVE Rest'
  <2>1. PICK n \in Parts :
          row' = [row EXCEPT ![p] = [ver |-> edits + 1, parts |-> n,
                                     captioned |-> row[p] # None /\ row[p].captioned]]
    BY <1>3 DEF EditRow
  <2>2. (row[p] # None /\ row[p].captioned) \in BOOLEAN
    BY <1>1, Tables DEF Row
  <2>3. edits + 1 \in 1..MaxEdits /\ edits' = edits + 1
    BY <1>1, <1>3 DEF EditRow
  <2>4. [ver |-> edits + 1, parts |-> n,
         captioned |-> row[p] # None /\ row[p].captioned] \in Row
    BY <2>2, <2>3 DEF Row
  <2>5. row' \in Table
    BY <1>1, <2>1, <2>4, Tables
  <2>6. edits' \in 0..MaxEdits
    BY <1>1, <2>3
  <2> QED  BY <1>1, <1>3, <2>5, <2>6 DEF EditRow
<1>4. ASSUME NEW p \in Product, DeleteRow(p) PROVE Rest'
  <2>1. row' \in Table
    BY <1>1, <1>4 DEF DeleteRow, Table
  <2>2. edits' \in 0..MaxEdits
    BY <1>1, <1>4 DEF DeleteRow
  <2> QED  BY <1>1, <1>4, <2>1, <2>2 DEF DeleteRow
<1>5. ASSUME NEW j \in Job, Start(j) PROVE Rest'
  BY <1>1, <1>5 DEF Start, Shop, Stores
<1>6. ASSUME NEW j \in Job, JobStep(j) PROVE Rest'
  <2>0. /\ job[j].rows \in Table /\ job[j].todo \in SUBSET Product
        /\ Shape(job[j]) /\ job[j].product \in Product \cup {None}
    BY <1>2, JobFields
  <2>1. CASE FetchOne(j) \/ FetchAll(j) \/ FetchForImages(j) \/ Fail(j)
    BY <1>1, <2>1 DEF FetchOne, FetchAll, FetchForImages, Fail, Shop, Stores
  <2>2. CASE DropOld(j)
    <3>1. PICK p \in job[j].todo : text' = text \ TextOf(p) /\ dirty' = dirty \cup {p}
      BY <2>2 DEF DropOld, DropText
    <3> QED  BY <1>1, <2>0, <2>2, <3>1 DEF DropOld, Shop
  <2>3. CASE UpsertText(j)
    BY <1>1, <2>0, <2>3, DocsTyped, UpsertTyped DEF UpsertText, Shop
  <2>4. CASE DropImage(j)
    BY <1>1, <2>4 DEF DropImage, Shop
  <2>5. CASE UpdateBm25(j)
    <3>1. job[j].product \in Product
      BY <2>0, <2>5 DEF UpdateBm25, At, Shape
    <3>2. Bm25After(j) \in Table
      BY <1>1, <2>0, <3>1 DEF Bm25After, Table
    <3>3. bm25' \in Table /\ stale' \in SUBSET Product
      BY <1>1, <2>5, <3>2 DEF UpdateBm25, WriteBm25
    <3> QED  BY <1>1, <2>5, <3>3 DEF UpdateBm25, Shop
  <2>6. CASE FetchForBm25(j)
    BY <1>1, <2>6 DEF FetchForBm25, Shop, Stores
  <2>7. CASE RebuildBm25(j)
    <3>1. bm25' \in Table /\ stale' \in SUBSET Product
      BY <1>1, <2>0, <2>7 DEF RebuildBm25, WriteBm25
    <3> QED  BY <1>1, <2>7, <3>1 DEF RebuildBm25, Shop
  <2>8. CASE CaptionImage(j)
    <3>1. PICK p \in job[j].todo, captioned \in Tagging :
            \/ /\ captioned /\ CaptionRow(p)
               /\ dirty' = dirty \cup {p} /\ stale' = stale \cup {p}
            \/ UNCHANGED <<row, dirty, stale>>
      BY <2>8 DEF CaptionImage
    <3>2. p \in Product
      BY <2>0
    <3>3. ASSUME CaptionRow(p), row[p] # None PROVE row' \in Table
      <4>1. PICK n \in Parts : row' = [row EXCEPT ![p].parts = n, ![p].captioned = TRUE]
        BY <3>3 DEF CaptionRow
      <4>2. row[p] \in Row
        BY <1>1, <3>2, <3>3, Tables
      <4>3. [row[p] EXCEPT !.parts = n, !.captioned = TRUE] \in Row
        BY <4>2 DEF Row
      <4>4. row' = [row EXCEPT ![p] = [row[p] EXCEPT !.parts = n, !.captioned = TRUE]]
        BY <4>1
      <4> QED  BY <1>1, <3>2, <4>3, <4>4, Tables
    <3>4. row' \in Table
      BY <1>1, <3>1, <3>3 DEF CaptionRow
    <3> QED  BY <1>1, <2>8, <3>1, <3>2, <3>4 DEF CaptionImage, Stores
  <2>9. CASE UpsertImages(j)
    <3> DEFINE made == {[product |-> p, part |-> 0, row |-> job[j].rows[p]] :
                          p \in {q \in Product : job[j].rows[q] # None}}
    <3>1. ASSUME NEW p \in Product, job[j].rows[p] # None
          PROVE  [product |-> p, part |-> 0, row |-> job[j].rows[p]] \in Doc
      <4>1. job[j].rows[p] \in Row
        BY <2>0, <3>1, Tables
      <4>2. job[j].rows[p].parts \in Parts /\ job[j].rows[p].parts \in Nat
        BY <4>1, RowParts DEF Row
      <4>3. 0 \in Part
        BY <4>2 DEF Part
      <4> QED  BY <4>1, <4>3 DEF Doc
    <3>2. made \in SUBSET Doc
      BY <3>1
    <3>3. image' = Upsert(image, made)
      BY <2>9 DEF UpsertImages
    <3> HIDE DEF made
    <3> QED  BY <1>1, <2>9, <3>2, <3>3, UpsertTyped DEF UpsertImages, Shop
  <2> QED  BY <1>6, <2>1, <2>2, <2>3, <2>4, <2>5, <2>6, <2>7, <2>8, <2>9 DEF JobStep
<1>7. CASE Restart
  <2>1. restarts' \in 0..MaxRestarts
    BY <1>1, <1>7 DEF Restart
  <2>2. bm25' \in Table /\ stale' \in SUBSET Product
    BY <1>1, <1>7, Tables DEF Restart
  <2> QED  BY <1>1, <1>7, <2>1, <2>2 DEF Restart
<1>8. CASE UNCHANGED vars
  BY <1>1, <1>8 DEF vars
<1> QED  BY <1>3, <1>4, <1>5, <1>6, <1>7, <1>8 DEF Next, Finished

-----------------------------------------------------------------------------
(* What one product has in the indexes.                                    *)

LEMMA ByProduct ==
    ASSUME TypeInv, \A p \in OneAtATime : Current(p)
    PROVE  InSync /\ NoOrphanChunk
<1>1. InSync
  BY DEF InSync, Current, UpToDate, Bm25Row, ImageOf
<1>2. NoOrphanChunk
  <2> SUFFICES ASSUME NEW d \in text, NEW e \in text, d.product \in OneAtATime,
                      d.product = e.product
               PROVE  d.row = e.row
    BY DEF NoOrphanChunk
  <2>1. d \in TextOf(d.product) /\ e \in TextOf(d.product)
    BY DEF TextOf
  <2> QED  BY <2>1 DEF Current, OneRow
<1> QED  BY <1>1, <1>2

\* The documents of a row are of its product and carry it.
LEMMA DocsOfOneRow ==
    ASSUME NEW p, NEW r
    PROVE  /\ \A d \in DocsOf(p, r) : d.product = p /\ d.row = r
           /\ OneRow(DocsOf(p, r)) /\ OneRow({})
BY DEF DocsOf, OneRow

\* Written into a place that was emptied before, the documents of a table are
\* all that a product has.
LEMMA TextUpserted ==
    ASSUME NEW rows, NEW p \in Product, rows[p] # None => TextOf(p) = {},
           text' = Upsert(text, DocsOfTable(rows))
    PROVE  TextOf(p)' = IF rows[p] # None THEN DocsOf(p, rows[p]) ELSE TextOf(p)
<1>1. ASSUME NEW d
      PROVE  d \in DocsOfTable(rows) <=>
                \E x \in Product : rows[x] # None /\ d \in DocsOf(x, rows[x])
  BY DEF DocsOfTable
<1>2. \A d \in DocsOfTable(rows) :
        d.product = p => rows[p] # None /\ d \in DocsOf(p, rows[p])
  BY <1>1, DocsOfOneRow
<1>3. rows[p] # None => \A d \in DocsOf(p, rows[p]) : d \in DocsOfTable(rows) /\ d.product = p
  BY <1>1, DocsOfOneRow
<1>4. CASE rows[p] # None
  <2>1. \A d \in text : d.product # p
    BY <1>4 DEF TextOf
  <2>2. \A d \in text' : d.product = p <=> d \in DocsOf(p, rows[p])
    BY <1>2, <1>3, <1>4, <2>1 DEF Upsert
  <2>3. DocsOf(p, rows[p]) \subseteq text'
    BY <1>3, <1>4 DEF Upsert
  <2> QED  BY <1>4, <2>2, <2>3 DEF TextOf
<1>5. CASE rows[p] = None
  <2>1. \A d \in text, e \in DocsOfTable(rows) :
           d.product = p => <<d.product, d.part>> # <<e.product, e.part>>
    BY <1>2, <1>5
  <2>2. \A d : d.product = p => (d \in text' <=> d \in text)
    BY <1>2, <1>5, <2>1 DEF Upsert
  <2> QED  BY <1>5, <2>2 DEF TextOf
<1> QED  BY <1>4, <1>5

\* A product nobody touches stays as it is.
Kept(p) ==
    /\ row'[p] = row[p] /\ TextOf(p)' = TextOf(p) /\ bm25'[p] = bm25[p]
    /\ ImageOf(p)' = ImageOf(p)
    /\ (p \in dirty' <=> p \in dirty) /\ (p \in stale => p \in stale')
    /\ p \in deleted' <=> p \in deleted

LEMMA KeptCurrent ==
    ASSUME NEW p, Current(p), Kept(p)
    PROVE  Current(p)'
BY DEF Current, UpToDate, Bm25Row, Kept, DocsOf, PartsOf, OneRow

LEMMA StoresKept ==
    ASSUME NEW p, UNCHANGED <<row, deleted, text, image, bm25, dirty, stale>>
    PROVE  Kept(p)
BY DEF Kept, TextOf, ImageOf

\* The BM25 index after a write, or after one that failed: it has the row of a
\* product when the rows written have it.
LEMMA Bm25Written ==
    ASSUME NEW p \in Product, Current(p), NEW new, NEW known, WriteBm25(new, known),
           row' = row, p \notin stale \/ p \in known => new[p] = Bm25Row(p)
    PROVE  p \notin stale' => bm25'[p] = Bm25Row(p)'
BY DEF WriteBm25, Current, Bm25Row

\* What a job promises of it is still true.
LEMMA KeptPromise ==
    ASSUME NEW p, NEW i, Kept(p), Promise(i, p), job'[i] = job[i]
    PROVE  Promise(i, p)'
BY DEF Promise, Touches, Running, Scope, Covers, Kept, JobInStep, Indexing, Rebuilding,
       Deleting, Imaging, DocsOf, PartsOf

\* A job that has ended promises nothing.
LEMMA RestingPromise ==
    ASSUME NEW j, NEW p, ~Touches(j, p)'
    PROVE  Promise(j, p)'
BY DEF Promise

LEMMA FinishedPromise ==
    ASSUME JobInv, NEW j \in Job, NEW status, Finish(j, status), NEW p
    PROVE  Promise(j, p)'
<1>1. job'[j].pc = "done"
  BY DEF Finish, JobInv, NoJob
<1> QED  BY <1>1 DEF Promise, Touches, Running

-----------------------------------------------------------------------------
(* One job at a time for a product.                                        *)

SameOrEnded(j) ==
    \/ job'[j].pc = "done"
    \/ job'[j].kind = job[j].kind /\ job'[j].product = job[j].product

\* A step of a running job leaves the others what they are, and it is the same job after
\* it or has ended.
LEMMA JobStepAlone ==
    ASSUME JobInv, NEW j \in Job, JobStep(j)
    PROVE  /\ Running(j)
           /\ \A i \in Job \ {j} : /\ job'[i].pc = job[i].pc
                                   /\ job'[i].kind = job[i].kind
                                   /\ job'[i].product = job[i].product
           /\ job[j].kind # "images" => \A i \in Job \ {j} : job'[i] = job[i]
           /\ SameOrEnded(j)
<1>0. job[j] \in JobState /\ job \in [Job -> JobState]
  BY JobFields DEF JobInv
<1>1. job[j].pc \notin {"idle", "done"}
  BY DEF JobStep, FetchOne, FetchAll, DropOld, UpsertText, DropImage, UpdateBm25,
         FetchForBm25, RebuildBm25, FetchForImages, CaptionImage, UpsertImages,
         Fail, At
<1>2. CASE ~CaptionImage(j)
  <2>1. \A i \in Job \ {j} : job'[i] = job[i]
    BY <1>0, <1>2
       DEF JobStep, FetchOne, FetchAll, DropOld, UpsertText, DropImage,
           UpdateBm25, FetchForBm25, RebuildBm25, FetchForImages, UpsertImages, Fail,
           Goto, Finish
  <2>2. ASSUME NEW status, Finish(j, status) PROVE SameOrEnded(j)
    BY <1>0, <2>2 DEF Finish, NoJob, SameOrEnded
  <2>3. ASSUME NEW label, Goto(j, label) PROVE SameOrEnded(j)
    BY <1>0, <2>3 DEF Goto, JobState, SameOrEnded
  <2>4. ASSUME FetchOne(j), ~(Finish(j, "404") \/ Finish(j, "500")) PROVE SameOrEnded(j)
    <3>1. job' = [job EXCEPT ![j].pc = "drop", ![j].rows[job[j].product] = row[job[j].product],
                             ![j].todo = Scope(j), ![j].fresh = Scope(j)]
      BY <2>4 DEF FetchOne
    <3> QED  BY <1>0, <3>1 DEF JobState, SameOrEnded
  <2>5. ASSUME FetchAll(j), ~Finish(j, "500") PROVE SameOrEnded(j)
    <3>1. PICK label, there :
            job' = [job EXCEPT ![j].pc = label, ![j].rows = row, ![j].todo = there,
                               ![j].fresh = Product]
      BY <2>5 DEF FetchAll
    <3> QED  BY <1>0, <3>1 DEF JobState, SameOrEnded
  <2>6. ASSUME FetchForBm25(j), ~Finish(j, "ok") PROVE SameOrEnded(j)
    <3>1. job' = [job EXCEPT ![j].pc = "rebuild", ![j].rows = row]
      BY <2>6 DEF FetchForBm25
    <3> QED  BY <1>0, <3>1 DEF JobState, SameOrEnded
  <2>7. ASSUME FetchForImages(j) PROVE SameOrEnded(j)
    <3>1. PICK with \in SUBSET {p \in Product : row[p] # None} :
            job' = [job EXCEPT
                      ![j].pc = IF {p \in with : ~row[p].captioned} = {}
                                THEN "images" ELSE "caption",
                      ![j].todo = {p \in with : ~row[p].captioned},
                      ![j].rows = [p \in Product |-> IF p \in with THEN row[p] ELSE None]]
      BY <2>7 DEF FetchForImages
    <3> QED  BY <1>0, <3>1 DEF JobState, SameOrEnded
  <2>8. ASSUME DropOld(j) PROVE SameOrEnded(j)
    <3>1. PICK label, p : job' = [job EXCEPT ![j].todo = @ \ {p}, ![j].pc = label]
      BY <2>8 DEF DropOld
    <3> QED  BY <1>0, <3>1 DEF JobState, SameOrEnded
  <2>9. SameOrEnded(j)
    BY <1>2, <2>2, <2>3, <2>4, <2>5, <2>6, <2>7, <2>8
       DEF JobStep, UpsertText, DropImage, UpdateBm25, RebuildBm25, UpsertImages, Fail
  <2> QED  BY <1>1, <2>1, <2>9 DEF Running
<1>3. CASE CaptionImage(j)
  <2>0. job[j].kind = "images"
    BY <1>3, JobFields DEF CaptionImage, At, Shape
  <2>1. ASSUME NEW i \in Job \ {j}
        PROVE  /\ job'[i].pc = job[i].pc /\ job'[i].kind = job[i].kind
               /\ job'[i].product = job[i].product
    <3>1. PICK p \in job[j].todo :
            job'[i] = job[i] \/ job'[i] = [job[i] EXCEPT !.fresh = @ \ {p}]
      BY <1>3 DEF CaptionImage, JobInv
    <3>2. job[i] \in JobState
      BY JobFields
    <3> QED  BY <3>1, <3>2 DEF JobState
  <2>2. job'[j].kind = job[j].kind /\ job'[j].product = job[j].product
    <3>1. PICK p \in job[j].todo, captioned \in Tagging :
            job'[j] = [job[j] EXCEPT !.todo = @ \ {p},
                         !.pc = IF job[j].todo = {p} THEN "images" ELSE "caption",
                         !.rows[p].captioned = captioned]
      BY <1>0, <1>3 DEF CaptionImage
    <3> QED  BY <1>0, <3>1 DEF JobState
  <2> QED  BY <1>1, <2>0, <2>1, <2>2 DEF Running, SameOrEnded
<1> QED  BY <1>2, <1>3

LEMMA SerialKept ==
    ASSUME JobInv, NEW p \in OneAtATime, Serial(p), [Next]_vars
    PROVE  Serial(p)'
<1>1. ASSUME NEW j \in Job, JobStep(j) PROVE Serial(p)'
  <2>1. \A i \in Job : Touches(i, p)' => Touches(i, p)
    BY <1>1, JobStepAlone DEF Touches, Running, Scope, SameOrEnded
  <2> QED  BY <2>1 DEF Serial
<1>2. ASSUME NEW j \in Job, Start(j) PROVE Serial(p)'
  <2>1. PICK k \in JobKinds, b \in Product \cup {None} :
          /\ \A x \in OneAtATime \cap Covers(k, b), i \in Job : ~Touches(i, x)
          /\ job' = [job EXCEPT ![j] =
               [@ EXCEPT !.kind = k, !.product = b,
                         !.pc = IF k = "delete" THEN "drop" ELSE "fetch",
                         !.todo = IF k = "delete" THEN {b} ELSE {},
                         !.fresh = IF k = "delete" THEN {b} ELSE {}]]
    BY <1>2 DEF Start
  <2>2. \A i \in Job \ {j} : job'[i] = job[i]
    BY <2>1 DEF JobInv
  <2>3. \A i \in Job \ {j} : Touches(i, p)' <=> Touches(i, p)
    BY <2>2 DEF Touches, Running, Scope
  <2>4. job'[j].kind = k /\ job'[j].product = b
    BY <2>1, JobFields DEF JobInv, JobState
  <2>5. Touches(j, p)' => p \in Covers(k, b)
    BY <2>4 DEF Touches, Scope, Covers
  <2> QED  BY <2>1, <2>3, <2>5 DEF Serial
<1>3. ASSUME NEW x \in Product, Outdated(x) PROVE Serial(p)'
  <2>1. \A j \in Job : /\ job'[j].pc = job[j].pc /\ job'[j].kind = job[j].kind
                       /\ job'[j].product = job[j].product
    BY <1>3 DEF Outdated, JobInv, JobState
  <2> QED  BY <2>1 DEF Serial, Touches, Running, Scope
<1>4. CASE Restart
  <2>1. \A j \in Job : job'[j].pc = "done" \/ job'[j] = job[j]
    BY <1>4 DEF Restart, NoJob
  <2>2. \A j \in Job : Touches(j, p)' => Touches(j, p)
    BY <2>1 DEF Touches, Running, Scope
  <2> QED  BY <2>2 DEF Serial
<1>5. CASE UNCHANGED vars
  BY <1>5 DEF vars, Serial, Touches, Running, Scope
<1> QED
  BY <1>1, <1>2, <1>3, <1>4, <1>5 DEF Next, EditRow, DeleteRow, Finished

-----------------------------------------------------------------------------
(* A job at work, step by step, and what it promises of a product.         *)

LEMMA FetchOneInStep ==
    ASSUME TypeInv, JobInv, JobInv', NEW j \in Job, FetchOne(j),
           NEW p \in Scope(j), Current(p)
    PROVE  Current(p)' /\ Promise(j, p)'
<1>1. Current(p)'
  BY StoresKept, KeptCurrent DEF FetchOne, Shop, Stores
<1>2. CASE Finish(j, "404") \/ Finish(j, "500")
  BY <1>1, <1>2, FinishedPromise
<1>3. CASE ~(Finish(j, "404") \/ Finish(j, "500"))
  <2>1. /\ job[j] \in JobState /\ Shape(job[j]) /\ job[j].kind = "reindex"
        /\ job[j].rows = EmptyTable /\ job[j].product \in Product
        /\ Scope(j) = {p} /\ p = job[j].product
    BY JobFields DEF FetchOne, At, Shape, Scope, Covers
  <2>2. job' = [job EXCEPT ![j].pc = "drop", ![j].rows[p] = row[p],
                           ![j].todo = {p}, ![j].fresh = {p}]
    BY <1>3, <2>1 DEF FetchOne
  <2>3. /\ job'[j].kind = "reindex" /\ job'[j].pc = "drop" /\ job'[j].todo = {p}
        /\ job'[j].rows = [EmptyTable EXCEPT ![p] = row[p]] /\ job'[j].fresh = {p}
    BY <2>1, <2>2 DEF JobInv, JobState
  <2>4. job'[j].rows[p] = row[p]
    BY <2>1, <2>3 DEF EmptyTable
  <2>5. row' = row
    BY DEF FetchOne, Shop
  <2>6. Indexing(job[j], p)'
    BY <2>3, <2>4, <2>5 DEF Indexing
  <2> QED  BY <1>1, <2>3, <2>6 DEF Promise, JobInStep
<1> QED  BY <1>2, <1>3

LEMMA FetchAllInStep ==
    ASSUME TypeInv, JobInv, JobInv', NEW j \in Job, FetchAll(j),
           NEW p \in Product, Current(p)
    PROVE  Current(p)' /\ Promise(j, p)'
<1>1. Current(p)'
  BY StoresKept, KeptCurrent DEF FetchAll, Shop, Stores
<1>2. CASE Finish(j, "500")
  BY <1>1, <1>2, FinishedPromise
<1>3. CASE ~Finish(j, "500")
  <2> DEFINE there == {x \in Product : row[x] # None}
  <2>1. job[j] \in JobState /\ job[j].kind = "all"
    BY JobFields DEF FetchAll
  <2>2. job' = [job EXCEPT ![j].pc = IF there = {} THEN "bm25" ELSE "drop",
                           ![j].rows = row, ![j].todo = there, ![j].fresh = Product]
    BY <1>3 DEF FetchAll
  <2>3. /\ job'[j].kind = "all" /\ job'[j].pc \in {"drop", "bm25"}
        /\ job'[j].rows = row /\ job'[j].todo = there /\ job'[j].fresh = Product
    BY <2>1, <2>2 DEF JobInv, JobState
  <2>4. row' = row
    BY DEF FetchAll, Shop
  <2>5. Indexing(job[j], p)'
    BY <2>3, <2>4 DEF Indexing
  <2> QED  BY <1>1, <2>3, <2>5 DEF Promise, JobInStep
<1> QED  BY <1>2, <1>3

LEMMA DropOldInStep ==
    ASSUME TypeInv, JobInv, JobInv', NEW j \in Job, DropOld(j), NEW p \in Scope(j),
           p \in Product, Current(p), JobInStep(job[j], p)
    PROVE  Current(p)' /\ Promise(j, p)'
<1>0. /\ job[j] \in JobState /\ Shape(job[j]) /\ job[j].pc = "drop"
      /\ job[j].todo \in SUBSET Product
      /\ job[j].kind \in {"reindex", "all", "delete"}
      /\ UNCHANGED <<row, deleted, image, bm25, stale>>
  BY JobFields DEF DropOld, At, Shape, Shop
<1>1. PICK x \in job[j].todo :
        /\ text' = text \ TextOf(x) /\ dirty' = dirty \cup {x}
        /\ job' = [job EXCEPT
                     ![j].todo = @ \ {x},
                     ![j].pc = IF job[j].todo # {x} THEN "drop"
                               ELSE IF job[j].kind = "delete" THEN "drop_image"
                               ELSE "upsert"]
  BY DEF DropOld, DropText
<1>2. TextOf(p)' = IF x = p THEN {} ELSE TextOf(p)
  BY <1>1 DEF TextOf
<1>3. /\ job'[j].kind = job[j].kind /\ job'[j].product = job[j].product
      /\ job'[j].rows = job[j].rows /\ job'[j].fresh = job[j].fresh
      /\ job'[j].todo = job[j].todo \ {x}
      /\ job'[j].pc \in {"drop", "upsert", "drop_image"}
  BY <1>0, <1>1 DEF JobInv, JobState
<1>4. Current(p)'
  <2>1. CASE x = p
    BY <1>0, <1>1, <1>2, <2>1, DocsOfOneRow DEF Current, Bm25Row
  <2>2. CASE x # p
    <3>1. Kept(p)
      BY <1>0, <1>1, <1>2, <2>2 DEF Kept, ImageOf
    <3> QED  BY <3>1, KeptCurrent
  <2> QED  BY <2>1, <2>2
<1>5. CASE job[j].kind = "delete"
  <2>1. Deleting(job[j], p) /\ x = p
    BY <1>0, <1>5 DEF JobInStep, Shape, Scope, Covers
  <2>2. Deleting(job[j], p)'
    BY <1>0, <1>2, <1>3, <2>1 DEF Deleting
  <2> QED  BY <1>3, <1>4, <1>5, <2>2 DEF Promise, JobInStep
<1>6. CASE job[j].kind # "delete"
  <2>1. Indexing(job[j], p)
    BY <1>0, <1>6 DEF JobInStep
  <2>2. Shape(job[j])'
    BY DEF JobInv
  <2>3. job'[j].pc \in {"drop", "upsert"}
    BY <1>3, <1>6, <2>2 DEF Shape
  <2>4. Indexing(job[j], p)'
    BY <1>0, <1>1, <1>2, <1>3, <2>1, <2>3 DEF Indexing
  <2> QED  BY <1>0, <1>3, <1>4, <1>6, <2>3, <2>4 DEF Promise, JobInStep
<1> QED  BY <1>5, <1>6

LEMMA UpsertTextInStep ==
    ASSUME TypeInv, JobInv, JobInv', NEW j \in Job, UpsertText(j), NEW p \in Product,
           Current(p), JobInStep(job[j], p)
    PROVE  Current(p)' /\ Promise(j, p)'
<1>0. /\ job[j] \in JobState /\ Shape(job[j]) /\ job[j].pc = "upsert"
      /\ job[j].kind \in {"reindex", "all"} /\ job[j].todo = {}
      /\ UNCHANGED <<row, deleted, image, bm25, dirty, stale>>
  BY JobFields DEF UpsertText, At, Shape, Shop
<1>1. Indexing(job[j], p)
  BY <1>0 DEF JobInStep
<1>2. job[j].rows[p] # None => p \in dirty /\ TextOf(p) = {}
  BY <1>0, <1>1 DEF Indexing
<1>3. TextOf(p)' = IF job[j].rows[p] # None
                   THEN DocsOf(p, job[j].rows[p]) ELSE TextOf(p)
  <2>1. text' = Upsert(text, DocsOfTable(job[j].rows))
    BY DEF UpsertText
  <2> QED  BY <1>2, <2>1, TextUpserted
<1>4. /\ job'[j].kind = job[j].kind /\ job'[j].product = job[j].product
      /\ job'[j].rows = job[j].rows /\ job'[j].fresh = job[j].fresh
      /\ job'[j].todo = {} /\ job'[j].pc = "bm25"
  BY <1>0 DEF UpsertText, Goto, JobInv, JobState
<1>5. Current(p)'
  <2>1. CASE job[j].rows[p] # None
    BY <1>0, <1>2, <1>3, <2>1, DocsOfOneRow DEF Current, Bm25Row
  <2>2. CASE job[j].rows[p] = None
    <3>1. Kept(p)
      BY <1>0, <1>3, <2>2 DEF Kept, ImageOf
    <3> QED  BY <3>1, KeptCurrent
  <2> QED  BY <2>1, <2>2
<1>6. Indexing(job[j], p)'
  <2>1. DocsOf(p, job[j].rows[p])' = DocsOf(p, job[j].rows[p])
    BY <1>4 DEF DocsOf, PartsOf
  <2> QED  BY <1>0, <1>1, <1>2, <1>3, <1>4, <2>1 DEF Indexing
<1> QED  BY <1>0, <1>4, <1>5, <1>6 DEF Promise, JobInStep

LEMMA DropImageInStep ==
    ASSUME TypeInv, JobInv, JobInv', NEW j \in Job, DropImage(j), NEW p \in Scope(j),
           Current(p), JobInStep(job[j], p), ShopInv
    PROVE  Current(p)' /\ Promise(j, p)'
<1>0. /\ job[j] \in JobState /\ Shape(job[j]) /\ job[j].pc = "drop_image"
      /\ job[j].kind = "delete" /\ p = job[j].product
      /\ UNCHANGED <<row, deleted, text, bm25, dirty, stale>>
      /\ image' = {d \in image : d.product # job[j].product}
  BY JobFields DEF DropImage, At, Shape, Shop, Scope, Covers
<1>1. Deleting(job[j], p)
  BY <1>0 DEF JobInStep
<1>2. TextOf(p)' = TextOf(p) /\ ImageOf(p)' = {}
  BY <1>0 DEF TextOf, ImageOf
<1>3. /\ job'[j].kind = "delete" /\ job'[j].product = job[j].product
      /\ job'[j].pc = "bm25"
  BY <1>0 DEF DropImage, Goto, JobInv, JobState
<1>4. Current(p)'
  BY <1>0, <1>1, <1>2 DEF Current, UpToDate, Bm25Row, Deleting, ShopInv
<1>5. Deleting(job[j], p)'
  BY <1>0, <1>1, <1>2, <1>3 DEF Deleting
<1> QED  BY <1>3, <1>4, <1>5 DEF Promise, JobInStep

\* The call of one product ends: its documents, when nobody edited the row since,
\* are in the text index, and gone from both collections when it was deleted; so is
\* its BM25 row, unless that update failed.
LEMMA UpdateBm25InStep ==
    ASSUME TypeInv, JobInv, JobInv', NEW j \in Job, UpdateBm25(j), NEW p \in Scope(j),
           Current(p), JobInStep(job[j], p), ShopInv
    PROVE  Current(p)' /\ Promise(j, p)'
<1>0. /\ job[j] \in JobState /\ Shape(job[j]) /\ job[j].pc = "bm25"
      /\ job[j].kind \in {"reindex", "delete"} /\ job[j].todo = {}
      /\ p = job[j].product /\ p \in Product
      /\ UNCHANGED <<row, deleted, text, image>>
      /\ WriteBm25(Bm25After(j), Settled(j)) /\ dirty' = dirty \ Settled(j)
      /\ bm25 \in Table
  BY JobFields DEF UpdateBm25, At, Shape, Shop, Scope, Covers, TypeInv, TypeOK
<1>1. Promise(j, p)'
  BY FinishedPromise DEF UpdateBm25
<1>2. TextOf(p)' = TextOf(p) /\ ImageOf(p)' = ImageOf(p)
  BY <1>0 DEF TextOf, ImageOf
<1>3. Bm25After(j)[p] = IF Bm25 THEN job[j].rows[p] ELSE None
  BY <1>0 DEF Bm25After, Table, ShopInv, EmptyTable
<1>4. CASE job[j].kind = "reindex"
  <2>1. Indexing(job[j], p) /\ job[j].rows[p] # None
    BY <1>0, <1>4 DEF JobInStep, Shape
  <2>2. p \in dirty /\ TextOf(p) = DocsOf(p, job[j].rows[p])
    BY <1>0, <2>1 DEF Indexing
  <2>3. p \notin dirty' => p \in job[j].fresh
    BY <1>0, <2>2 DEF Settled
  <2>4. p \in job[j].fresh => job[j].rows[p] = row[p]
    BY <2>1 DEF Indexing
  <2>5. p \notin dirty' => UpToDate(p)'
    BY <1>0, <1>2, <2>1, <2>2, <2>3, <2>4 DEF UpToDate, DocsOf, PartsOf
  <2>6. p \notin stale \/ p \in Settled(j) => p \in job[j].fresh
    BY <2>1 DEF Indexing, Settled
  <2>7. p \notin stale' => bm25'[p] = Bm25Row(p)'
    <3>1. p \notin stale \/ p \in Settled(j) => Bm25After(j)[p] = Bm25Row(p)
      BY <1>3, <2>4, <2>6 DEF Bm25Row
    <3> QED  BY <1>0, <3>1, Bm25Written
  <2> QED  BY <1>1, <1>2, <2>5, <2>7 DEF Current
<1>5. CASE job[j].kind = "delete"
  <2>1. Deleting(job[j], p) /\ job[j].rows = EmptyTable
    BY <1>0, <1>5 DEF JobInStep, Shape
  <2>2. row[p] = None /\ TextOf(p) = {} /\ ImageOf(p) = {}
    BY <1>0, <2>1 DEF Deleting, ShopInv
  <2>3. p \notin stale' => bm25'[p] = Bm25Row(p)'
    <3>1. Bm25After(j)[p] = Bm25Row(p)
      BY <1>0, <1>3, <2>1, <2>2 DEF EmptyTable, Bm25Row
    <3> QED  BY <1>0, <3>1, Bm25Written
  <2>4. UpToDate(p)'
    BY <1>0, <1>2, <2>2 DEF UpToDate
  <2> QED  BY <1>1, <1>2, <2>3, <2>4 DEF Current
<1> QED  BY <1>0, <1>4, <1>5

\* The second read of the table by reindex_all, and the end of a call without
\* the BM25 index or with one that is left as it was: what it settles has its
\* documents.
LEMMA FetchForBm25InStep ==
    ASSUME TypeInv, JobInv, JobInv', NEW j \in Job, FetchForBm25(j), NEW p \in Product,
           Current(p), JobInStep(job[j], p)
    PROVE  Current(p)' /\ Promise(j, p)'
<1>0. /\ job[j] \in JobState /\ Shape(job[j]) /\ job[j].pc = "bm25"
      /\ job[j].kind = "all" /\ job[j].todo = {}
      /\ UNCHANGED <<row, deleted, text, image, bm25, stale>>
  BY JobFields DEF FetchForBm25, At, Shape, Shop, Stores
<1>1. Indexing(job[j], p)
  BY <1>0 DEF JobInStep
<1>2. TextOf(p)' = TextOf(p) /\ ImageOf(p)' = ImageOf(p)
  BY <1>0 DEF TextOf, ImageOf
<1>3. p \in job[j].fresh => job[j].rows[p] = row[p]
  BY <1>1 DEF Indexing
<1>4. job[j].rows[p] # None => TextOf(p) = DocsOf(p, job[j].rows[p])
  BY <1>0, <1>1 DEF Indexing
<1>5. p \notin stale' => bm25'[p] = Bm25Row(p)'
  BY <1>0 DEF Current, Bm25Row
<1>6. CASE Finish(j, "ok") /\ dirty' = dirty \ Settled(j)
  <2>1. CASE p \in Settled(j)
    <3>1. p \in job[j].fresh /\ job[j].rows[p] # None
      BY <1>0, <2>1 DEF Settled
    <3>2. row[p] # None /\ TextOf(p) = DocsOf(p, row[p])
      BY <1>3, <1>4, <3>1
    <3>3. UpToDate(p)'
      BY <1>0, <1>2, <1>6, <3>2 DEF UpToDate, DocsOf, PartsOf
    <3> QED  BY <1>2, <1>5, <1>6, <3>3, FinishedPromise DEF Current
  <2>2. CASE p \notin Settled(j)
    <3>1. Kept(p)
      BY <1>0, <1>2, <1>6, <2>2 DEF Kept
    <3> QED  BY <1>6, <3>1, KeptCurrent, FinishedPromise
  <2> QED  BY <2>1, <2>2
<1>7. CASE Bm25 /\ UNCHANGED dirty /\ job' = [job EXCEPT ![j].pc = "rebuild", ![j].rows = row]
  <2>1. Current(p)'
    BY <1>0, <1>7, StoresKept, KeptCurrent
  <2>2. /\ job'[j].kind = "all" /\ job'[j].pc = "rebuild" /\ job'[j].rows = row
        /\ job'[j].fresh = job[j].fresh
    BY <1>0, <1>7 DEF JobInv, JobState
  <2>3. p \notin job[j].fresh => p \in dirty /\ p \in stale
    BY <1>0, <1>1 DEF Indexing
  <2>4. p \in job[j].fresh /\ row[p] # None => TextOf(p) = DocsOf(p, row[p])
    BY <1>3, <1>4
  <2>5. Rebuilding(job[j], p)'
    BY <1>0, <1>2, <1>7, <2>2, <2>3, <2>4 DEF Rebuilding, DocsOf, PartsOf
  <2> QED  BY <2>1, <2>2, <2>5 DEF Promise, JobInStep
<1> QED  BY <1>6, <1>7 DEF FetchForBm25

\* build_index brings every product of the shop into the BM25 index, those
\* nobody edited since it read them as they are; when it fails the text index is
\* up to date all the same.
LEMMA RebuildBm25InStep ==
    ASSUME TypeInv, JobInv, JobInv', NEW j \in Job, RebuildBm25(j), NEW p \in Product,
           Current(p), JobInStep(job[j], p)
    PROVE  Current(p)' /\ Promise(j, p)'
<1>0. /\ job[j] \in JobState /\ Shape(job[j]) /\ job[j].pc = "rebuild"
      /\ job[j].kind = "all" /\ Bm25
      /\ UNCHANGED <<row, deleted, text, image>>
      /\ WriteBm25(job[j].rows, job[j].fresh) /\ dirty' = dirty \ Settled(j)
  BY JobFields DEF RebuildBm25, At, Shape, Shop
<1>1. Rebuilding(job[j], p)
  BY <1>0 DEF JobInStep
<1>2. TextOf(p)' = TextOf(p) /\ ImageOf(p)' = ImageOf(p)
  BY <1>0 DEF TextOf, ImageOf
<1>3. ASSUME p \notin dirty' PROVE UpToDate(p)'
  <2>1. p \in job[j].fresh /\ job[j].rows[p] = row[p]
    BY <1>0, <1>1, <1>3 DEF Rebuilding, Settled
  <2>2. row[p] # None => TextOf(p) = DocsOf(p, row[p])
    BY <1>1, <2>1 DEF Rebuilding
  <2>3. row[p] = None => TextOf(p) = {} /\ ImageOf(p) = {}
    BY <1>0, <1>3, <2>1 DEF Current, UpToDate, Settled
  <2> QED  BY <1>0, <1>2, <2>1, <2>2, <2>3 DEF UpToDate, DocsOf, PartsOf
<1>4. p \notin stale' => bm25'[p] = Bm25Row(p)'
  <2>1. p \notin stale \/ p \in job[j].fresh => job[j].rows[p] = Bm25Row(p)
    BY <1>0, <1>1 DEF Rebuilding, Bm25Row
  <2> QED  BY <1>0, <2>1, Bm25Written
<1> QED  BY <1>2, <1>3, <1>4, FinishedPromise DEF Current, RebuildBm25

LEMMA FetchForImagesInStep ==
    ASSUME TypeInv, JobInv, JobInv', NEW j \in Job, FetchForImages(j),
           NEW p \in Product, Current(p)
    PROVE  Current(p)' /\ Promise(j, p)'
<1>0. job[j] \in JobState /\ job[j].kind = "images" /\ row' = row
  BY JobFields DEF FetchForImages, Shop
<1>1. PICK with \in SUBSET {x \in Product : row[x] # None} :
        job' = [job EXCEPT
                  ![j].pc = IF {x \in with : ~row[x].captioned} = {}
                            THEN "images" ELSE "caption",
                  ![j].todo = {x \in with : ~row[x].captioned},
                  ![j].rows = [x \in Product |-> IF x \in with THEN row[x] ELSE None]]
  BY DEF FetchForImages
<1>2. /\ job'[j].kind = "images" /\ job'[j].pc \in {"images", "caption"}
      /\ job'[j].rows = [x \in Product |-> IF x \in with THEN row[x] ELSE None]
  BY <1>0, <1>1 DEF JobInv, JobState
<1>3. job'[j].rows[p] # None => row'[p] # None
  BY <1>0, <1>2
<1>4. Imaging(job[j], p)'
  BY <1>3 DEF Imaging
<1>5. Current(p)'
  BY StoresKept, KeptCurrent DEF FetchForImages, Shop, Stores
<1> QED  BY <1>2, <1>4, <1>5 DEF Promise, JobInStep

\* A caption is an edit of one row: what is promised of the others stays.
LEMMA CaptionImageInStep ==
    ASSUME TypeInv, JobInv, JobInv', NEW j \in Job, CaptionImage(j), NEW p \in Product,
           Current(p), JobInStep(job[j], p)
    PROVE  Current(p)' /\ Promise(j, p)'
<1>0. /\ job[j] \in JobState /\ Shape(job[j]) /\ job[j].pc = "caption"
      /\ job[j].kind = "images" /\ job[j].todo \in SUBSET Product
      /\ job[j].rows \in Table /\ UNCHANGED <<deleted, text, image, bm25>>
  BY JobFields DEF CaptionImage, At, Shape, Stores
<1>1. Imaging(job[j], p)
  BY <1>0 DEF JobInStep
<1>2. PICK x \in job[j].todo, captioned \in Tagging :
        LET next == [job[j] EXCEPT !.todo = @ \ {x},
                        !.pc = IF job[j].todo = {x} THEN "images" ELSE "caption",
                        !.rows[x].captioned = captioned]
            others == [i \in Job |-> [job[i] EXCEPT !.fresh = @ \ {x}]]
        IN  IF captioned
            THEN /\ CaptionRow(x) /\ dirty' = dirty \cup {x} /\ stale' = stale \cup {x}
                 /\ job' = [others EXCEPT ![j] = next]
            ELSE job' = [job EXCEPT ![j] = next] /\ UNCHANGED <<row, dirty, stale>>
  BY DEF CaptionImage
<1>3. x \in Product /\ job[j].rows[x] # None
  BY <1>0 DEF Shape
<1> DEFINE q == [job[j] EXCEPT !.todo = @ \ {x},
                    !.pc = IF job[j].todo = {x} THEN "images" ELSE "caption",
                    !.rows[x].captioned = captioned]
<1>4. job'[j] = q
  BY <1>2 DEF JobInv
<1>5. /\ job'[j].kind = "images" /\ job'[j].pc \in {"images", "caption"}
      /\ p # x => job'[j].rows[p] = job[j].rows[p]
  BY <1>0, <1>4 DEF JobState, Table
<1>6. /\ p # x => row'[p] = row[p] /\ (p \in dirty' <=> p \in dirty)
      /\ stale \subseteq stale'
      /\ \/ row'[x] = row[x] /\ dirty' = dirty
         \/ x \in dirty' /\ x \in stale' /\ (row[x] = None => row'[x] = None)
  <2>1. CASE ~captioned
    BY <1>2, <2>1
  <2>2. CASE captioned
    <3>1. CaptionRow(x) /\ dirty' = dirty \cup {x} /\ stale' = stale \cup {x}
      BY <1>2, <2>2
    <3>2. row \in Table
      BY DEF TypeInv, TypeOK
    <3>3. row' = row \/ \E n \in Parts :
             row' = [row EXCEPT ![x] = [row[x] EXCEPT !.parts = n, !.captioned = TRUE]]
      BY <3>1 DEF CaptionRow
    <3>4. p # x => row'[p] = row[p]
      BY <3>2, <3>3 DEF Table
    <3> QED  BY <3>1, <3>4 DEF CaptionRow
  <2> QED  BY <2>1, <2>2
<1>7. TextOf(p)' = TextOf(p) /\ ImageOf(p)' = ImageOf(p)
  BY <1>0 DEF TextOf, ImageOf
<1>8. CASE p # x
  <2>1. Kept(p)
    BY <1>0, <1>6, <1>7, <1>8 DEF Kept
  <2>2. Imaging(job[j], p)'
    BY <1>1, <1>5, <1>6, <1>8 DEF Imaging
  <2> QED  BY <1>5, <2>1, <2>2, KeptCurrent DEF Promise, JobInStep
<1>9. CASE p = x
  <2>1. Imaging(job[j], p)'
    BY <1>1, <1>3, <1>6, <1>9, captioned \in BOOLEAN DEF Imaging, Tagging
  <2>2. CASE row'[p] = row[p] /\ dirty' = dirty
    <3>1. Kept(p)
      BY <1>0, <1>6, <1>7, <2>2 DEF Kept
    <3> QED  BY <1>5, <2>1, <3>1, KeptCurrent DEF Promise, JobInStep
  <2>3. CASE p \in dirty' /\ p \in stale'
    BY <1>5, <1>7, <2>1, <2>3 DEF Current, Promise, JobInStep
  <2> QED  BY <1>6, <1>9, <2>2, <2>3
<1> QED  BY <1>8, <1>9

\* Images are written for products that have a row, or had one when the script
\* read it; those are not up to date.
LEMMA UpsertImagesInStep ==
    ASSUME TypeInv, JobInv, JobInv', NEW j \in Job, UpsertImages(j), NEW p \in Product,
           Current(p), JobInStep(job[j], p)
    PROVE  Current(p)' /\ Promise(j, p)'
<1> DEFINE made == {[product |-> x, part |-> 0, row |-> job[j].rows[x]] :
                      x \in {y \in Product : job[j].rows[y] # None}}
<1>0. /\ job[j].pc = "images" /\ UNCHANGED <<row, deleted, text, bm25, dirty, stale>>
      /\ image' = Upsert(image, made)
  BY DEF UpsertImages, At, Shop
<1>1. Imaging(job[j], p)
  BY <1>0 DEF JobInStep
<1>2. \A d \in made : job[j].rows[d.product] # None
  OBVIOUS
<1>3. \A d \in image' : d \in image \/ job[j].rows[d.product] # None
  BY <1>0, <1>2 DEF Upsert
<1>4. TextOf(p)' = TextOf(p)
  BY <1>0 DEF TextOf
<1>5. ASSUME p \notin dirty PROVE UpToDate(p)'
  <2>1. UpToDate(p)
    BY <1>5 DEF Current
  <2>2. row[p] = None => job[j].rows[p] = None
    BY <1>1, <1>5 DEF Imaging
  <2>3. row[p] = None => ImageOf(p)' = {}
    BY <1>3, <2>1, <2>2 DEF UpToDate, ImageOf
  <2> QED  BY <1>0, <1>4, <2>1, <2>3 DEF UpToDate, DocsOf, PartsOf
<1>6. Current(p)'
  BY <1>0, <1>4, <1>5 DEF Current, Bm25Row, OneRow
<1> QED  BY <1>6, FinishedPromise DEF UpsertImages

\* A step of a job that does not cover p.
LEMMA OutOfScope ==
    ASSUME TypeInv, JobInv, NEW j \in Job, JobStep(j), NEW p \in Product, p \notin Scope(j)
    PROVE  Kept(p)
<1>0. /\ job[j] \in JobState /\ Shape(job[j])
      /\ job[j].kind \in {"reindex", "delete"} /\ p # job[j].product
  BY JobFields DEF Scope, Covers
<1>1. job[j].rows[p] = None
  BY <1>0 DEF Shape, EmptyTable
<1>2. job[j].todo \subseteq {job[j].product}
  BY <1>0, JobFields DEF Shape
<1>3. CASE FetchOne(j) \/ Fail(j)
  BY <1>3, StoresKept DEF FetchOne, Fail, Shop, Stores
<1>4. CASE DropOld(j)
  <2>1. PICK x \in job[j].todo : text' = text \ TextOf(x) /\ dirty' = dirty \cup {x}
    BY <1>4 DEF DropOld, DropText
  <2>2. x # p
    BY <1>0, <1>2
  <2>3. TextOf(p)' = TextOf(p)
    BY <2>1, <2>2 DEF TextOf
  <2> QED  BY <1>4, <2>1, <2>2, <2>3 DEF DropOld, Shop, Kept, ImageOf
<1>5. CASE UpsertText(j)
  <2>1. text' = Upsert(text, DocsOfTable(job[j].rows))
    BY <1>5 DEF UpsertText
  <2>2. TextOf(p)' = TextOf(p)
    BY <1>1, <2>1, TextUpserted
  <2> QED  BY <1>5, <2>2 DEF UpsertText, Shop, Kept, ImageOf
<1>6. CASE DropImage(j)
  <2>1. ImageOf(p)' = ImageOf(p)
    BY <1>0, <1>6 DEF DropImage, ImageOf
  <2> QED  BY <1>6, <2>1 DEF DropImage, Shop, Kept, TextOf
<1>7. CASE UpdateBm25(j)
  <2>1. bm25'[p] = bm25[p]
    BY <1>0, <1>7 DEF UpdateBm25, WriteBm25, Bm25After, TypeInv, TypeOK, Table
  <2>2. p \notin Settled(j) /\ (p \in stale => p \in stale')
    BY <1>7 DEF Settled, UpdateBm25, WriteBm25
  <2> QED  BY <1>7, <2>1, <2>2 DEF UpdateBm25, Shop, Kept, TextOf, ImageOf
<1>8. ~(\/ FetchAll(j) \/ FetchForBm25(j) \/ RebuildBm25(j) \/ FetchForImages(j)
        \/ CaptionImage(j) \/ UpsertImages(j))
  BY <1>0 DEF FetchAll, FetchForBm25, RebuildBm25, FetchForImages, CaptionImage,
              UpsertImages, At, Shape
<1> QED  BY <1>3, <1>4, <1>5, <1>6, <1>7, <1>8 DEF JobStep

LEMMA JobStepInStep ==
    ASSUME TypeInv, JobInv, JobInv', ShopInv, NEW p \in OneAtATime, InStep(p), NEW j \in Job,
           JobStep(j)
    PROVE  Current(p)' /\ \A i \in Job : Promise(i, p)'
<1>0. p \in Product /\ Running(j)
  BY JobStepAlone, CatalogIndexAssumption
<1>1. CASE p \notin Scope(j)
  <2>1. Kept(p)
    BY <1>0, <1>1, OutOfScope
  <2>2. \A i \in Job \ {j} : job'[i] = job[i]
    BY <1>1, JobStepAlone, <1>0 DEF Scope, Covers
  <2>3. Promise(j, p)'
    BY <1>1, JobStepAlone DEF Promise, Touches, Scope, Running, SameOrEnded
  <2>4. \A i \in Job \ {j} : Promise(i, p)'
    BY <2>1, <2>2, KeptPromise DEF InStep
  <2> QED  BY <2>1, <2>3, <2>4, KeptCurrent DEF InStep
<1>2. CASE p \in Scope(j)
  <2>1. /\ Touches(j, p) /\ JobInStep(job[j], p) /\ Current(p)
        /\ \A i \in Job \ {j} : ~Touches(i, p)
    BY <1>0, <1>2 DEF InStep, Serial, Promise, Touches
  <2>2. \A i \in Job \ {j} : ~Touches(i, p)'
    BY <2>1, JobStepAlone DEF Touches, Running, Scope
  <2>3. \A i \in Job \ {j} : Promise(i, p)'
    BY <2>2, RestingPromise
  <2>4. Current(p)' /\ Promise(j, p)'
    <3>1. CASE Fail(j)
      BY <2>1, <3>1, StoresKept, KeptCurrent, FinishedPromise DEF Fail, Shop, Stores
    <3>2. ASSUME ~Fail(j) PROVE Current(p)' /\ Promise(j, p)'
      BY <1>0, <1>2, <2>1, <3>2, FetchOneInStep, FetchAllInStep, DropOldInStep,
         UpsertTextInStep, DropImageInStep, UpdateBm25InStep, FetchForBm25InStep,
         RebuildBm25InStep, FetchForImagesInStep, CaptionImageInStep, UpsertImagesInStep
         DEF JobStep
    <3> QED  BY <3>1, <3>2
  <2> QED  BY <2>3, <2>4
<1> QED  BY <1>1, <1>2

-----------------------------------------------------------------------------
(* The shop, calls that arrive and restarts.                               *)

\* A job whose row is edited has one that is not fresh any more, and a product
\* that is not up to date.
LEMMA ShopInStep ==
    ASSUME TypeInv, JobInv, NEW p \in OneAtATime, InStep(p),
           NEW x \in Product, EditRow(x) \/ DeleteRow(x)
    PROVE  Current(p)' /\ \A i \in Job : Promise(i, p)'
<1>0. /\ p \in Product /\ Outdated(x) /\ row \in Table /\ dirty' = dirty \cup {x}
      /\ stale' = stale \cup {x} /\ UNCHANGED <<text, image, bm25>>
  BY CatalogIndexAssumption DEF EditRow, DeleteRow, TypeInv, TypeOK
<1>1. TextOf(p)' = TextOf(p) /\ ImageOf(p)' = ImageOf(p)
  BY <1>0 DEF TextOf, ImageOf
<1>2. deleted \subseteq deleted' /\ (p # x => row'[p] = row[p] /\ (p \in deleted' <=> p \in deleted))
  BY <1>0 DEF EditRow, DeleteRow, Table
<1>3. ASSUME NEW i \in Job
      PROVE  /\ job'[i].kind = job[i].kind /\ job'[i].pc = job[i].pc
             /\ job'[i].rows = job[i].rows /\ job'[i].product = job[i].product
             /\ job'[i].todo = job[i].todo /\ job'[i].fresh = job[i].fresh \ {x}
  BY <1>0 DEF Outdated, JobInv, JobState
<1>4. ASSUME NEW i \in Job, Touches(i, p)'
      PROVE  JobInStep(job[i], p)
  BY <1>3, <1>4 DEF InStep, Promise, Touches, Running, Scope
<1>5. CASE p # x
  <2>1. Kept(p)
    BY <1>0, <1>1, <1>2, <1>5 DEF Kept
  <2>2. ASSUME NEW i \in Job, Touches(i, p)' PROVE JobInStep(job[i], p)'
    BY <1>3, <1>4, <1>5, <2>1, <2>2
       DEF JobInStep, Indexing, Rebuilding, Deleting, Imaging, Kept, DocsOf, PartsOf
  <2> QED  BY <2>1, <2>2, KeptCurrent DEF InStep, Promise
<1>6. CASE p = x
  <2>1. Current(p)'
    BY <1>0, <1>1, <1>6 DEF Current, InStep
  <2>2. ASSUME NEW i \in Job, Touches(i, p)' PROVE JobInStep(job[i], p)'
    BY <1>0, <1>1, <1>2, <1>3, <1>4, <1>6, <2>2
       DEF JobInStep, Indexing, Rebuilding, Deleting, Imaging, DocsOf, PartsOf
  <2> QED  BY <2>1, <2>2 DEF Promise
<1> QED  BY <1>5, <1>6

LEMMA StartInStep ==
    ASSUME TypeInv, JobInv, NEW p \in OneAtATime, InStep(p), NEW j \in Job, Start(j)
    PROVE  Current(p)' /\ \A i \in Job : Promise(i, p)'
<1>0. Kept(p)
  BY StoresKept DEF Start, Shop, Stores
<1>1. PICK k \in JobKinds, b \in Product \cup {None} :
        /\ k = "delete" => b \in deleted
        /\ job' = [job EXCEPT ![j] =
               [@ EXCEPT !.kind = k, !.product = b,
                         !.pc = IF k = "delete" THEN "drop" ELSE "fetch",
                         !.todo = IF k = "delete" THEN {b} ELSE {},
                         !.fresh = IF k = "delete" THEN {b} ELSE {}]]
  BY DEF Start
<1>2. \A i \in Job \ {j} : Promise(i, p)'
  <2>1. \A i \in Job \ {j} : job'[i] = job[i]
    BY <1>1 DEF JobInv
  <2> QED  BY <1>0, <2>1, KeptPromise DEF InStep
<1>3. /\ job'[j].kind = k /\ job'[j].product = b
      /\ job'[j].pc = (IF k = "delete" THEN "drop" ELSE "fetch")
  BY <1>1, JobFields DEF JobInv, JobState
<1>4. Promise(j, p)'
  <2>1. CASE k = "delete"
    <3>1. Touches(j, p)' => p = b
      BY <1>3, <2>1 DEF Touches, Scope, Covers
    <3>2. Touches(j, p)' => Deleting(job[j], p)'
      BY <1>0, <1>1, <1>3, <2>1, <3>1 DEF Deleting, Kept
    <3> QED  BY <1>3, <2>1, <3>2 DEF Promise, JobInStep
  <2>2. CASE k # "delete"
    BY <1>3, <2>2 DEF Promise, JobInStep
  <2> QED  BY <2>1, <2>2
<1> QED  BY <1>0, <1>2, <1>4, KeptCurrent DEF InStep

\* After a restart only the image script still runs.
LEMMA RestartInStep ==
    ASSUME TypeInv, JobInv, ShopInv, NEW p \in OneAtATime, InStep(p), Restart
    PROVE  Current(p)' /\ \A i \in Job : Promise(i, p)'
<1>0. /\ p \in Product /\ UNCHANGED <<row, deleted, text, image, dirty>>
  BY CatalogIndexAssumption DEF Restart
<1>2. TextOf(p)' = TextOf(p) /\ ImageOf(p)' = ImageOf(p)
  BY <1>0 DEF TextOf, ImageOf
<1>3. ASSUME p \notin stale' PROVE bm25'[p] = Bm25Row(p)'
  <2>1. bm25' = IF Bm25 THEN row ELSE bm25
    BY <1>0, <1>3 DEF Restart
  <2> QED  BY <1>0, <2>1 DEF Bm25Row, ShopInv, EmptyTable
<1>4. Current(p)'
  <2>1. p \notin dirty' => UpToDate(p)'
    BY <1>0, <1>2 DEF InStep, Current, UpToDate, DocsOf, PartsOf
  <2> QED  BY <1>2, <1>3, <2>1 DEF InStep, Current
<1>5. ASSUME NEW i \in Job PROVE Promise(i, p)'
  <2>1. CASE Running(i) /\ job[i].kind # "images"
    <3>1. job'[i].pc = "done"
      BY <2>1 DEF Restart, NoJob
    <3> QED  BY <3>1 DEF Promise, Touches, Running
  <2>2. CASE ~Running(i)
    <3>1. job'[i] = job[i]
      BY <2>2 DEF Restart
    <3> QED  BY <2>2, <3>1 DEF Promise, Touches, Running
  <2>3. CASE Running(i) /\ job[i].kind = "images"
    <3>1. job'[i] = job[i]
      BY <2>3 DEF Restart
    <3>2. Shape(job[i]) /\ Promise(i, p)
      BY DEF JobInv, InStep
    <3>3. job[i].pc # "rebuild"
      BY <2>3, <3>2 DEF Shape
    <3>4. Touches(i, p)' => JobInStep(job[i], p)
      BY <3>1, <3>2 DEF Promise, Touches, Running, Scope
    <3>5. Touches(i, p)' /\ job[i].pc \in {"caption", "images"} => Imaging(job[i], p)'
      BY <1>0, <3>1, <3>4 DEF JobInStep, Imaging
    <3> QED  BY <2>3, <3>1, <3>3, <3>5 DEF Promise, JobInStep
  <2> QED  BY <2>1, <2>2, <2>3
<1> QED  BY <1>4, <1>5

\* Ids are not used again, and without the setting there is no BM25 index.
LEMMA ShopKept ==
    ASSUME TypeInv, JobInv, ShopInv, [Next]_vars
    PROVE  ShopInv'
<1>0. row \in Table /\ bm25 \in Table /\ deleted \subseteq Product
  BY DEF TypeInv, TypeOK
<1>1. ASSUME NEW x \in Product, EditRow(x) \/ DeleteRow(x) PROVE ShopInv'
  BY <1>0, <1>1 DEF EditRow, DeleteRow, ShopInv, Table
<1>2. ASSUME NEW j \in Job, CaptionImage(j) PROVE ShopInv'
  <2>1. PICK x \in job[j].todo : CaptionRow(x) \/ row' = row
    BY <1>2 DEF CaptionImage
  <2>2. x \in Product
    BY JobFields
  <2>3. row' = row \/ (row[x] # None /\ \E n \in Parts :
           row' = [row EXCEPT ![x] = [row[x] EXCEPT !.parts = n, !.captioned = TRUE]])
    BY <2>1 DEF CaptionRow
  <2>4. \A y \in Product : row[y] = None => row'[y] = None
    BY <1>0, <2>2, <2>3 DEF Table
  <2>5. UNCHANGED <<deleted, bm25>>
    BY <1>2 DEF CaptionImage, Stores
  <2> QED  BY <1>0, <2>4, <2>5 DEF ShopInv
<1>3. ASSUME NEW j \in Job, UpdateBm25(j) \/ RebuildBm25(j) PROVE ShopInv'
  <2>1. UNCHANGED <<row, deleted>>
    BY <1>3 DEF UpdateBm25, RebuildBm25, Shop
  <2>2. ~Bm25 => bm25' = bm25
    BY <1>3, JobFields DEF UpdateBm25, RebuildBm25, WriteBm25, Bm25After, Shape, At
  <2> QED  BY <2>1, <2>2 DEF ShopInv
<1>4. ASSUME NEW j \in Job, JobStep(j),
             ~CaptionImage(j), ~UpdateBm25(j), ~RebuildBm25(j)
      PROVE  ShopInv'
  BY <1>4 DEF JobStep, FetchOne, FetchAll, DropOld, UpsertText, DropImage, FetchForBm25,
              FetchForImages, UpsertImages, Fail, Shop, Stores, ShopInv
<1>5. CASE Restart
  BY <1>5 DEF Restart, ShopInv
<1>6. CASE UNCHANGED vars \/ \E j \in Job : Start(j)
  BY <1>6 DEF vars, Start, Shop, Stores, ShopInv
<1> QED  BY <1>1, <1>2, <1>3, <1>4, <1>5, <1>6 DEF Next, Finished

-----------------------------------------------------------------------------
(* The theorems.                                                           *)

\* The variables have their types and the locals of a job fit its stage, with overlapping
\* jobs too (admin.py, the indexing scripts).
THEOREM TypeInvariance == Spec => []TypeInv
BY TypeInit, TypeNext, PTL DEF Spec

\* Rows, documents and jobs keep their shape however the jobs overlap: a
\* document is of a part its row has, and a job has read what it works on.
THEOREM IndexTypeCorrect == Spec => []TypeOK
<1>1. TypeInv => TypeOK
  BY DEF TypeInv
<1> QED  BY <1>1, TypeInvariance, PTL

LEMMA SyncInit == Init => SyncInv
<1> SUFFICES ASSUME Init PROVE SyncInv
  OBVIOUS
<1>1. ShopInv
  BY DEF Init, ShopInv
<1>2. ASSUME NEW p \in OneAtATime PROVE InStep(p)
  <2>1. \A j \in Job : ~Touches(j, p)
    BY DEF Init, NoJob, Touches, Running
  <2>2. p \in Product /\ row[p] = None /\ bm25[p] = None /\ TextOf(p) = {} /\ ImageOf(p) = {}
    BY CatalogIndexAssumption DEF Init, EmptyTable, TextOf, ImageOf
  <2> QED  BY <2>1, <2>2 DEF InStep, Serial, Current, UpToDate, Bm25Row, OneRow, Promise
<1> QED  BY <1>1, <1>2 DEF SyncInv

LEMMA InvNext == IInv /\ [Next]_vars => IInv'
<1> SUFFICES ASSUME IInv, [Next]_vars PROVE IInv'
  OBVIOUS
<1>1. TypeInv /\ SyncInv /\ TypeInv' /\ JobInv /\ JobInv'
  BY TypeNext DEF IInv, TypeInv, TypeOK, JobInv
<1>2. ShopInv'
  BY <1>1, ShopKept DEF SyncInv
<1>3. ASSUME NEW p \in OneAtATime PROVE InStep(p)'
  <2>1. InStep(p) /\ ShopInv
    BY <1>1 DEF SyncInv
  <2>2. Serial(p)'
    BY <1>1, <2>1, SerialKept DEF InStep
  <2>3. Current(p)' /\ \A i \in Job : Promise(i, p)'
    <3>1. CASE UNCHANGED vars
      <4>1. Kept(p) /\ job' = job
        BY <3>1, StoresKept DEF vars
      <4> QED  BY <2>1, <4>1, KeptCurrent, KeptPromise DEF InStep
    <3> QED
      BY <1>1, <2>1, <3>1, ShopInStep, StartInStep, JobStepInStep, RestartInStep
         DEF Next, Finished
  <2> QED  BY <2>2, <2>3 DEF InStep
<1> QED  BY <1>1, <1>2, <1>3 DEF IInv, SyncInv

\* A job that is the only one to touch a product has at each stage what it needs to leave
\* the indexes in step with its row, and the indexes are in step while no job has touched it,
\* whatever jobs of other products do at the same time (admin.py, index_products*.py).
THEOREM SyncInvariance == Spec => []IInv
<1>1. Init => IInv
  BY TypeInit, SyncInit DEF IInv
<1> QED  BY <1>1, InvNext, PTL DEF Spec

\* What a job brought up to date is up to date until somebody edits it, for every
\* product whose callers run one job after the other: each of its parts and nothing else
\* in the text index, and nothing of a deleted product, whether or not the BM25 update of
\* that job failed; its row in the BM25 index since the last job or restart whose BM25
\* update did not fail.  This holds across failed calls, edits in the middle of a job,
\* jobs of other products and restarts.
THEOREM IndexesFollowTheTable == Spec => []InSync
<1>1. IInv => InSync
  BY ByProduct DEF IInv, SyncInv, InStep
<1> QED  BY <1>1, SyncInvariance, PTL

\* The documents of such a product all come from one row: delete-then-upsert
\* leaves no chunk of an older row.
THEOREM NoChunkOutlivesItsRow == Spec => []NoOrphanChunk
<1>1. IInv => NoOrphanChunk
  BY ByProduct DEF IInv, SyncInv, InStep
<1> QED  BY <1>1, SyncInvariance, PTL
=============================================================================
