---------------------------- MODULE CatalogIndex ----------------------------
(***************************************************************************)
(* The search indexes behind SEMANTIC_SEARCH and what keeps them in step   *)
(* with the PRODUCT table: the endpoints of routers/admin.py, the indexing *)
(* scripts they and the operators run, and the BM25 index in memory.       *)
(*                                                                         *)
(* The shop (Spring Boot) edits rows and calls the endpoints; a call may   *)
(* be lost, and nothing orders two calls.  A job is one call or one run of *)
(* the image script, and each of its awaits separates two steps.           *)
(***************************************************************************)
EXTENDS Naturals, FiniteSets

CONSTANTS
    Product,     \* PRODUCT_IDs
    Job,         \* calls and script runs, each of them used once
    None,        \* no row, no product
    JobKinds,    \* the kinds of jobs this instance runs
    Parts,       \* chunk counts of descriptions; 0 is a short one, not chunked
    Threshold,   \* CHUNK_THRESHOLD_CHARS
    Overlap,     \* CHUNK_OVERLAP_CHARS
    Bm25,        \* BM25_ENABLED
    OneAtATime,  \* products whose callers wait for one job that covers them
                 \* before they start the next
    Faults,      \* Oracle, ChromaDB or the embedding API may fail
    MaxEdits,    \* bound on edits of the PRODUCT table
    MaxRestarts  \* bound on restarts of the server

ASSUME CatalogIndexAssumption ==
    /\ None \notin Product
    /\ JobKinds \subseteq {"reindex", "delete", "all", "images"}
    /\ Parts \subseteq Nat
    /\ Threshold \in Nat \ {0} /\ Overlap \in Nat
    /\ {Bm25, Faults} \subseteq BOOLEAN /\ OneAtATime \subseteq Product
    /\ MaxEdits \in Nat /\ MaxRestarts \in Nat

VARIABLES
    row,       \* the PRODUCT table; None for no row
    deleted,   \* PRODUCT_IDs whose row was deleted
    text,      \* documents of the Chroma collection 'products'
    image,     \* documents of 'products_image'
    bm25,      \* _corpus_rows, by product
    job,       \* per job: its kind, its program counter and its locals
    dirty,     \* history: products whose documents no job brought up to date
               \* since their row was written
    stale,     \* history: products whose BM25 row is not known to be up to
               \* date, a failed update of the BM25 index included
    edits,     \* edits so far
    restarts   \* restarts so far

vars == <<row, deleted, text, image, bm25, job, dirty, stale, edits, restarts>>

-----------------------------------------------------------------------------
(* Types.                                                                  *)

\* captioned: whether IMAGE_CAPTION, which is part of the indexed text, is set.
Row == [ver : 1..MaxEdits, parts : Parts, captioned : BOOLEAN]

Table == [Product -> Row \cup {None}]

\* A document carries the metadata of the row it was made from.  Part 0 has the
\* id of its product, part n the id of its n-th chunk.
Part == UNION {0..n : n \in Parts}

Doc == [product : Product, part : Part, row : Row]

JobPc == {"idle", "fetch", "drop", "upsert", "bm25", "drop_image", "caption",
          "images", "rebuild", "done"}

JobState ==
    [kind : JobKinds \cup {"none"}, pc : JobPc, product : Product \cup {None},
     rows : Table, todo : SUBSET Product, fresh : SUBSET Product,
     status : {"none", "ok", "404", "500"}]

EmptyTable == [p \in Product |-> None]

NoJob == [kind |-> "none", pc |-> "idle", product |-> None,
          rows |-> EmptyTable, todo |-> {}, fresh |-> {}, status |-> "none"]

TypeOK ==
    /\ row \in Table
    /\ deleted \in SUBSET Product
    /\ text \in SUBSET Doc
    /\ image \in SUBSET Doc
    /\ bm25 \in Table
    /\ job \in [Job -> JobState]
    /\ {dirty, stale} \subseteq SUBSET Product
    /\ edits \in 0..MaxEdits
    /\ restarts \in 0..MaxRestarts

\* A new shop: no product, nothing indexed.
Init ==
    /\ row = EmptyTable /\ deleted = {}
    /\ text = {} /\ image = {} /\ bm25 = EmptyTable
    /\ job = [j \in Job |-> NoJob]
    /\ dirty = {} /\ stale = {} /\ edits = 0 /\ restarts = 0

-----------------------------------------------------------------------------
(* Documents.                                                              *)

PartsPastTheEnd(r) == 0..(r.parts + 1)

\* The parts build_chunk_documents makes: the product as it is when its text is
\* short, its chunks when it is long.
PartsOf(r) == IF r.parts = 0 THEN {0} ELSE 1..r.parts

DocsOf(p, r) == {[product |-> p, part |-> n, row |-> r] : n \in PartsOf(r)}

\* RecursiveCharacterTextSplitter refuses an overlap above its chunk size; the
\* overlap it is given is the one of the environment.
SplitterRaises(r) == r.parts > 0 /\ Overlap > Threshold

DocsOfTable(rows) ==
    UNION {DocsOf(p, rows[p]) : p \in {q \in Product : rows[q] # None}}

TextOf(p) == {d \in text : d.product = p}

\* Chroma's upsert replaces the documents that have the same id.
Upsert(store, docs) ==
    {d \in store : \A e \in docs : <<d.product, d.part>> # <<e.product, e.part>>}
        \cup docs

-----------------------------------------------------------------------------
(* The shop.                                                               *)

\* Every job that read the row of p now works on an old one.
Outdated(p) ==
    job' = [j \in Job |-> [job[j] EXCEPT !.fresh = @ \ {p}]]

\* A product is registered, without a caption, or changed.
EditRow(p) ==
    /\ edits < MaxEdits /\ p \notin deleted
    /\ \E n \in Parts :
          row' = [row EXCEPT ![p] =
                    [ver |-> edits + 1, parts |-> n,
                     captioned |-> row[p] # None /\ row[p].captioned]]
    /\ edits' = edits + 1
    /\ dirty' = dirty \cup {p} /\ stale' = stale \cup {p}
    /\ Outdated(p)
    /\ UNCHANGED <<deleted, text, image, bm25, restarts>>

DeleteRow(p) ==
    /\ edits < MaxEdits /\ row[p] # None
    /\ row' = [row EXCEPT ![p] = None]
    /\ deleted' = deleted \cup {p}
    /\ edits' = edits + 1
    /\ dirty' = dirty \cup {p} /\ stale' = stale \cup {p}
    /\ Outdated(p)
    /\ UNCHANGED <<text, image, bm25, restarts>>

-----------------------------------------------------------------------------
(* Jobs.                                                                   *)

At(j, label) == job[j].pc = label

Goto(j, label) == job' = [job EXCEPT ![j].pc = label]

\* The call is answered or the script exits, and its locals are gone.
Finish(j, status) ==
    job' = [job EXCEPT ![j] = [NoJob EXCEPT !.pc = "done", !.status = status]]

Running(j) == job[j].pc \notin {"idle", "done"}

Stores == <<text, image, bm25>>

Shop == <<row, deleted, edits, restarts>>

\* The products a job reads or writes: the one it is called for, or all.
Covers(kind, p) == IF kind \in {"reindex", "delete"} THEN {p} ELSE Product

Scope(j) == Covers(job[j].kind, job[j].product)

Touches(j, p) == Running(j) /\ p \in Scope(j)

\* A call arrives or an operator runs the image script.  The shop asks to
\* delete a product only when its row is gone.
Start(j) ==
    /\ At(j, "idle")
    /\ \E k \in JobKinds, p \in Product \cup {None} :
        /\ p # None <=> k \in {"reindex", "delete"}
        /\ k = "delete" => p \in deleted
        /\ \A x \in OneAtATime \cap Covers(k, p), i \in Job : ~Touches(i, x)
        /\ job' = [job EXCEPT ![j] =
               [@ EXCEPT !.kind = k, !.product = p,
                         !.pc = IF k = "delete" THEN "drop" ELSE "fetch",
                         !.todo = IF k = "delete" THEN {p} ELSE {},
                         !.fresh = IF k = "delete" THEN {p} ELSE {}]]
    /\ UNCHANGED <<Shop, Stores, dirty, stale>>

\* fetch_product_by_id and build_chunk_documents of reindex_product.
FetchOne(j) ==
    /\ At(j, "fetch") /\ job[j].kind = "reindex"
    /\ LET r == row[job[j].product] IN
       \/ r = None /\ Finish(j, "404")
       \/ r # None /\ SplitterRaises(r) /\ Finish(j, "500")
       \/ /\ r # None /\ ~SplitterRaises(r)
          /\ job' = [job EXCEPT ![j].pc = "drop",
                                ![j].rows[job[j].product] = r,
                                ![j].todo = Scope(j), ![j].fresh = Scope(j)]
    /\ UNCHANGED <<Shop, Stores, dirty, stale>>

\* fetch_all_products and the documents of every row, in scripts.main.  Without
\* rows the script returns and reindex_all goes on to the BM25 index.
FetchAll(j) ==
    /\ At(j, "fetch") /\ job[j].kind = "all"
    /\ LET there == {p \in Product : row[p] # None} IN
       IF \E p \in there : SplitterRaises(row[p])
       THEN Finish(j, "500")
       ELSE job' = [job EXCEPT ![j].pc = IF there = {} THEN "bm25" ELSE "drop",
                               ![j].rows = row, ![j].todo = there,
                               ![j].fresh = Product]
    /\ UNCHANGED <<Shop, Stores, dirty, stale>>

ForgetsToDrop(j, p) == UNCHANGED text

\* delete_product: every document with the metadata product_id = p.
DropText(j, p) == text' = text \ TextOf(p)

\* One await of the delete loop before the upsert.  Whatever happens now, the
\* product is not up to date before the job ends.
DropOld(j) ==
    /\ At(j, "drop")
    /\ \E p \in job[j].todo :
        /\ DropText(j, p)
        /\ dirty' = dirty \cup {p}
        /\ job' = [job EXCEPT
                     ![j].todo = @ \ {p},
                     ![j].pc = IF job[j].todo # {p} THEN "drop"
                               ELSE IF job[j].kind = "delete" THEN "drop_image"
                               ELSE "upsert"]
    /\ UNCHANGED <<Shop, image, bm25, stale>>

\* upsert_products with all the documents of the job.
UpsertText(j) ==
    /\ At(j, "upsert")
    /\ text' = Upsert(text, DocsOfTable(job[j].rows))
    /\ Goto(j, "bm25")
    /\ UNCHANGED <<Shop, image, bm25, dirty, stale>>

\* delete_image_product: the document whose id is the product's.
DropImage(j) ==
    /\ At(j, "drop_image")
    /\ image' = {d \in image : d.product # job[j].product}
    /\ Goto(j, "bm25")
    /\ UNCHANGED <<Shop, text, bm25, dirty, stale>>

Bm25Kept(j) == bm25

\* What the jobs of one product leave in the BM25 index.
Bm25After(j) ==
    IF Bm25 THEN [bm25 EXCEPT ![job[j].product] = job[j].rows[job[j].product]]
    ELSE bm25

\* The products an ending job has brought up to date: those it wrote from rows
\* that nobody edited since.
Settled(j) ==
    {p \in Scope(j) \cap job[j].fresh : job[j].kind = "all" => job[j].rows[p] # None}

\* The BM25 index gets new rows, and what it has of the products in known is up to
\* date.  An exception is logged and forgotten: it comes before _corpus_rows is
\* replaced, or after it from BM25Okapi, and then _bm25 ranks other rows than these.
WriteBm25(new, known) ==
    \/ bm25' = new /\ stale' = stale \ known
    \/ Bm25 /\ Faults /\ UNCHANGED <<bm25, stale>>
    \/ Bm25 /\ Faults /\ bm25' = new /\ stale' = Product

\* upsert_one or delete_one under the lock, and the answer.
UpdateBm25(j) ==
    /\ At(j, "bm25") /\ job[j].kind \in {"reindex", "delete"}
    /\ WriteBm25(Bm25After(j), Settled(j))
    /\ dirty' = dirty \ Settled(j)
    /\ Finish(j, "ok")
    /\ UNCHANGED <<Shop, text, image>>

\* reindex_all reads the table a second time for the BM25 index; a failure is
\* logged, and the call is answered as if there were nothing left to do.
FetchForBm25(j) ==
    /\ At(j, "bm25") /\ job[j].kind = "all"
    /\ \/ /\ Bm25
          /\ job' = [job EXCEPT ![j].pc = "rebuild", ![j].rows = row]
          /\ UNCHANGED dirty
       \/ /\ Bm25 => Faults
          /\ dirty' = dirty \ Settled(j)
          /\ Finish(j, "ok")
    /\ UNCHANGED <<Shop, Stores, stale>>

\* build_index with the rows just read, and the answer.
RebuildBm25(j) ==
    /\ At(j, "rebuild")
    /\ WriteBm25(job[j].rows, job[j].fresh)
    /\ dirty' = dirty \ Settled(j)
    /\ Finish(j, "ok")
    /\ UNCHANGED <<Shop, text, image>>

\* The image script reads the table; a row may have no image or a bad one.
FetchForImages(j) ==
    /\ At(j, "fetch") /\ job[j].kind = "images"
    /\ \E with \in SUBSET {p \in Product : row[p] # None} :
          LET blank == {p \in with : ~row[p].captioned}
          IN  job' = [job EXCEPT
                        ![j].pc = IF blank = {} THEN "images" ELSE "caption",
                        ![j].todo = blank,
                        ![j].rows = [p \in Product |->
                                        IF p \in with THEN row[p] ELSE None]]
    /\ UNCHANGED <<Shop, Stores, dirty, stale>>

\* update_image_caption sets one column of the row, if it is still there, and
\* makes its text longer; the shop and the indexes are not told.
CaptionRow(p) ==
    IF row[p] = None THEN UNCHANGED row
    ELSE \E n \in {m \in Parts : m >= row[p].parts} :
            row' = [row EXCEPT ![p].parts = n, ![p].captioned = TRUE]

\* generate_image_caption: whether there is a caption; an error gives None.
Tagging == BOOLEAN

\* One turn of the loop of the script; a product without a caption is skipped.
CaptionImage(j) ==
    /\ At(j, "caption")
    /\ \E p \in job[j].todo, captioned \in Tagging :
        LET next == [job[j] EXCEPT !.todo = @ \ {p},
                                   !.pc = IF job[j].todo = {p} THEN "images" ELSE "caption",
                                   !.rows[p].captioned = captioned]
            others == [i \in Job |-> [job[i] EXCEPT !.fresh = @ \ {p}]]
        IN  IF captioned
            THEN /\ CaptionRow(p)
                 /\ dirty' = dirty \cup {p} /\ stale' = stale \cup {p}
                 /\ job' = [others EXCEPT ![j] = next]
            ELSE job' = [job EXCEPT ![j] = next] /\ UNCHANGED <<row, dirty, stale>>
    /\ UNCHANGED <<deleted, edits, restarts, Stores>>

\* upsert_image_products: one document per product, never chunked.
UpsertImages(j) ==
    /\ At(j, "images")
    /\ image' = Upsert(image,
                   {[product |-> p, part |-> 0, row |-> job[j].rows[p]] :
                        p \in {q \in Product : job[j].rows[q] # None}})
    /\ Finish(j, "ok")
    /\ UNCHANGED <<Shop, text, bm25, dirty, stale>>

\* Oracle, ChromaDB or the embedding API fails: the call answers 500 and what
\* it did so far stays.  Failures around the BM25 index do not end a call.
Fail(j) ==
    /\ Faults
    /\ \/ job[j].pc \in {"fetch", "drop", "upsert", "drop_image", "caption",
                        "images"}
       \/ At(j, "bm25") /\ job[j].kind = "all"
    /\ Finish(j, "500")
    /\ UNCHANGED <<Shop, Stores, dirty, stale>>

\* The server restarts: its calls die, and lifespan builds the BM25 index from
\* the table.  When the table cannot be read or the index cannot be built it goes
\* on without.
Restart ==
    /\ restarts < MaxRestarts
    /\ restarts' = restarts + 1
    /\ job' = [j \in Job |->
                  IF Running(j) /\ job[j].kind # "images"
                  THEN [NoJob EXCEPT !.pc = "done", !.status = "500"] ELSE job[j]]
    /\ \/ bm25' = (IF Bm25 THEN row ELSE bm25) /\ stale' = {}
       \/ Bm25 /\ Faults /\ bm25' \in {EmptyTable, row} /\ stale' = Product
    /\ UNCHANGED <<row, deleted, edits, text, image, dirty>>

JobStep(j) ==
    \/ FetchOne(j) \/ FetchAll(j) \/ DropOld(j) \/ UpsertText(j) \/ DropImage(j)
    \/ UpdateBm25(j) \/ FetchForBm25(j) \/ RebuildBm25(j) \/ FetchForImages(j)
    \/ CaptionImage(j) \/ UpsertImages(j) \/ Fail(j)

\* Nothing is left to edit or to run.
Finished ==
    /\ \A j \in Job : At(j, "done")
    /\ UNCHANGED vars

Next ==
    \/ \E p \in Product : EditRow(p) \/ DeleteRow(p)
    \/ \E j \in Job : Start(j) \/ JobStep(j)
    \/ Restart
    \/ Finished

Spec == Init /\ [][Next]_vars

-----------------------------------------------------------------------------
(* Safety.                                                                 *)

\* What a job brought up to date is up to date until the next edit, across failed
\* calls, restarts and edits in the middle of a job.  After a job that ended well the
\* text index has all parts of the current row and no other, and no image is left of
\* a product that is gone, whether or not its BM25 update failed; the BM25 index has
\* the current row since the last job or restart that is known to have written it.
InSync ==
    \A p \in OneAtATime :
        /\ p \notin dirty =>
              IF row[p] = None THEN TextOf(p) = {} /\ \A d \in image : d.product # p
              ELSE TextOf(p) = DocsOf(p, row[p])
        /\ p \notin stale => bm25[p] = IF Bm25 THEN row[p] ELSE None

\* Delete-then-upsert: the documents of a product all come from one row, however
\* many chunks the rows before it had.
NoOrphanChunk ==
    \A d, e \in text :
        d.product \in OneAtATime /\ d.product = e.product => d.row = e.row
=============================================================================
