---------------------------- MODULE ProductAdmin ----------------------------
(***************************************************************************)
(* The administration of products: AdminProductCreationService with the    *)
(* storage of images (apps/api/src/admin, apps/api/src/product-assets) and *)
(* the editor that calls it (apps/web/src/features/admin), while orders    *)
(* sell what is edited.                                                    *)
(*                                                                         *)
(* An image is a file that is stored before the row that names it.  No     *)
(* transaction spans the two, and the editor's save spans three requests:  *)
(* the load, the read of the row and its conditional update.               *)
(*                                                                         *)
(* A version counts the writes of its row, where the code compares         *)
(* updatedAt, the millisecond of the last write: that a row is written,    *)
(* loaded and written again within one millisecond, which the code cannot  *)
(* tell from a single write, is left out.                                  *)
(***************************************************************************)
EXTENDS Integers, FiniteSets

CONSTANTS
  Products,  \* identities Product rows can get
  Slugs,     \* what createProductSlug makes of names
  Images,    \* keys of stored images, each used once
  Editors,   \* open editors, with at most one request each
  None,
  MaxStock,  \* bound: the stock an editor sets
  MaxWrites  \* bound: writes of a row

VARIABLES
  rows,      \* Product: slug, imagePath, stockAmount, updatedAt
  files,     \* the images in PRODUCT_ASSET_STORAGE_PATH
  used,      \* the keys that were ever given to an image
  doubtful,  \* images whose row was written and the answer to it was lost
  due,       \* what the stock of a product must be: what editors added less what
             \* orders took
  editor,    \* each editor: closed, editing or submitting, with the row it loaded
  request    \* what the API does for each editor

vars == <<rows, files, used, doubtful, due, editor, request>>
assets == <<files, used, doubtful>>

-----------------------------------------------------------------------------
Idle == [phase |-> "idle"]
Closed == [kind |-> "closed"]

\* The first row comes with the fixtures, and its image is one of the web's own
\* assets, which are not in the storage.
Init ==
  /\ rows \in {[[p \in Products |-> None] EXCEPT ![q] =
                  [slug |-> s, image |-> None, stock |-> 1, updatedAt |-> 0]] :
               q \in Products, s \in Slugs}
  /\ files = {} /\ used = {} /\ doubtful = {}
  /\ due     = [p \in Products |-> IF rows[p] = None THEN 0 ELSE 1]
  /\ editor  = [e \in Editors |-> Closed]
  /\ request = [e \in Editors |-> Idle]

Exists(p) == rows[p] # None
Submitting(e) == editor[e].kind = "submitting"
At(e, phase) == request[e].phase = phase

-----------------------------------------------------------------------------
(* The editor                                                              *)

\* The page of a new product, or of the row as it is now.
Open(e) ==
  /\ ~ Submitting(e) /\ request[e] = Idle
  /\ \/ editor' = [editor EXCEPT ![e] = [kind |-> "editing", product |-> None]]
     \/ \E p \in Products :
          /\ Exists(p)
          /\ editor' = [editor EXCEPT ![e] =
               [kind |-> "editing", product |-> p, stock |-> rows[p].stock,
                updatedAt |-> rows[p].updatedAt]]
  /\ UNCHANGED <<rows, assets, due, request>>

\* Input that the editor's own validation accepts: a stock and, unless the row
\* keeps its own, an image.  A save that failed may be repeated, from the same
\* version.
Submit(e, slug, stock, withImage) ==
  LET f == editor[e] IN
  /\ f.kind = "editing" /\ request[e] = Idle
  /\ f.product # None => rows[f.product].slug = slug
  /\ f.product = None => withImage
  /\ editor' = [editor EXCEPT ![e].kind = "submitting"]
  /\ request' = [request EXCEPT ![e] =
       [phase |-> "sent", product |-> f.product, slug |-> slug, stock |-> stock,
        loaded |-> IF f.product = None THEN 0 ELSE f.stock,
        expected |-> IF f.product = None THEN 0 ELSE f.updatedAt,
        withImage |-> withImage, image |-> None]]
  /\ UNCHANGED <<rows, assets, due>>

\* The request times out after REQUEST_TIMEOUT_MS, or its answer is lost.
GiveUp(e) ==
  /\ Submitting(e)
  /\ editor' = [editor EXCEPT ![e].kind = "editing"]
  /\ UNCHANGED <<rows, assets, due, request>>

\* The answer, if the editor still waits: after a save it shows no form any more,
\* and every refusal leaves it as it was.
Answers(e, saved) ==
  /\ request' = [request EXCEPT ![e] = Idle]
  /\ editor' = IF ~ Submitting(e) THEN editor
               ELSE [editor EXCEPT ![e] = IF saved THEN Closed
                                          ELSE [@ EXCEPT !.kind = "editing"]]

Goes(e, phase) ==
  /\ request' = [request EXCEPT ![e].phase = phase]
  /\ UNCHANGED editor

-----------------------------------------------------------------------------
(* The API                                                                 *)

\* The guards or the validation of the body refuse the request.
Refuse(e) ==
  /\ At(e, "sent")
  /\ Answers(e, FALSE)
  /\ UNCHANGED <<rows, assets, due>>

\* updateProduct reads the row: it must be the one that was loaded.
ReadRow(e) ==
  LET q == request[e] IN
  /\ At(e, "sent")
  /\ IF q.product # None /\ rows[q.product].updatedAt # q.expected
     THEN Answers(e, FALSE)
     ELSE Goes(e, IF q.withImage THEN "storing" ELSE "writing")
  /\ UNCHANGED <<rows, assets, due>>

\* storeImage: the file gets its name when it is complete; or it is no image, or
\* the storage fails and the partial file is removed.
StoreImage(e) ==
  /\ At(e, "storing")
  /\ \/ \E i \in Images \ used :
          /\ files' = files \cup {i} /\ used' = used \cup {i}
          /\ request' = [request EXCEPT ![e].phase = "writing", ![e].image = i]
          /\ UNCHANGED editor
     \/ Answers(e, FALSE) /\ UNCHANGED <<files, used>>
  /\ UNCHANGED <<rows, doubtful, due>>

\* Mutant: the update names its row and no version of it.
AppliesToAny(q) == TRUE

\* A slug nobody has, or the row as it was read.
Applies(q) ==
  IF q.product = None
  THEN \A p \in Products : Exists(p) => rows[p].slug # q.slug
  ELSE rows[q.product].updatedAt = q.expected

\* The statement is carried out, and its answer arrives or is lost.
Write(e) ==
  LET q == request[e] IN
  /\ At(e, "writing") /\ Applies(q)
  /\ \E p \in Products :
       /\ IF q.product = None THEN ~ Exists(p) ELSE p = q.product
       /\ rows' = [rows EXCEPT ![p] =
            IF q.product = None
            THEN [slug |-> q.slug, image |-> q.image, stock |-> q.stock, updatedAt |-> 0]
            ELSE [slug |-> q.slug, stock |-> q.stock, updatedAt |-> @.updatedAt + 1,
                  image |-> IF q.image = None THEN @.image ELSE q.image]]
       /\ rows'[p].updatedAt <= MaxWrites
       /\ due' = [due EXCEPT ![p] = @ + q.stock - q.loaded]
  /\ \/ Goes(e, "written") /\ UNCHANGED doubtful
     \/ /\ Goes(e, "failed")
        /\ doubtful' = doubtful \cup ({q.image} \ {None})
  /\ UNCHANGED <<files, used>>

\* The slug is taken, the row was changed, or the database refuses.
WriteFails(e) ==
  /\ At(e, "writing")
  /\ Goes(e, "failed")
  /\ UNCHANGED <<rows, assets, due>>

\* Mutant: a failed read after the update is taken for a failed update.
RespondDeletingImage(e) ==
  /\ At(e, "written")
  /\ \/ Answers(e, TRUE) /\ UNCHANGED files
     \/ /\ request[e].product # None
        /\ files' = files \ {request[e].image}
        /\ Answers(e, FALSE)
  /\ UNCHANGED <<rows, used, doubtful, due>>

\* The created row, or the updated one, which is read again: once the update is
\* committed a failure of that read leaves the image alone.
Respond(e) ==
  /\ At(e, "written")
  /\ \/ Answers(e, TRUE)
     \/ request[e].product # None /\ Answers(e, FALSE)
  /\ UNCHANGED <<rows, assets, due>>

\* deleteAsset after a failed write, which may fail as well.
CleanUp(e) ==
  /\ At(e, "failed")
  /\ files' \in {files, files \ {request[e].image}}
  /\ Answers(e, FALSE)
  /\ UNCHANGED <<rows, used, doubtful, due>>

\* The API's process ends with its requests.
Crash ==
  /\ request' = [e \in Editors |-> Idle]
  /\ editor' = [e \in Editors |-> IF Submitting(e) THEN [editor[e] EXCEPT !.kind = "editing"]
                                  ELSE editor[e]]
  /\ UNCHANGED <<rows, assets, due>>

-----------------------------------------------------------------------------
\* An order takes one of a product (orders and payments, by Prisma, which writes
\* updatedAt with every update), and a released payment gives it back.
Sell(p, n) ==
  /\ Exists(p) /\ rows[p].stock - n \in 0..MaxStock
  /\ rows[p].updatedAt < MaxWrites
  /\ rows' = [rows EXCEPT ![p].stock = @ - n, ![p].updatedAt = @ + 1]
  /\ due' = [due EXCEPT ![p] = @ - n]
  /\ UNCHANGED <<assets, editor, request>>

Step(e) ==
  \/ Open(e)
  \/ \E s \in Slugs, n \in 0..MaxStock, b \in BOOLEAN : Submit(e, s, n, b)
  \/ GiveUp(e)
  \/ Refuse(e) \/ ReadRow(e) \/ StoreImage(e)
  \/ Write(e) \/ WriteFails(e) \/ Respond(e) \/ CleanUp(e)

Next ==
  \/ \E e \in Editors : Step(e)
  \/ \E p \in Products, n \in {-1, 1} : Sell(p, n)
  \/ Crash

Spec == Init /\ [][Next]_vars

-----------------------------------------------------------------------------
(* Properties                                                              *)

\* A save never undoes an order or another save that came between its load and
\* its update: what the stock of a row is short of is what orders took.
StockAccounted ==
  \A p \in Products : Exists(p) => rows[p].stock = due[p]

\* A product's image is there.  Only the lost answer of the very statement that
\* stored the row can have its image removed, and two rows never share one.
ImageKept ==
  \A p \in Products : Exists(p) /\ rows[p].image # None =>
    /\ rows[p].image \in files \cup doubtful
    /\ \A q \in Products \ {p} : Exists(q) => rows[q].image # rows[p].image

=============================================================================
