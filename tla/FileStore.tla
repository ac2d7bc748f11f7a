------------------------------ MODULE FileStore ------------------------------
(***************************************************************************)
(* The files that the rows of this system point at: attachments and        *)
(* invoices that the browser uploads by itself with a signed URL and that  *)
(* are registered later, and the documents of the DIAN that an emission    *)
(* archives.  The store is external: it keeps objects by name, refuses an  *)
(* upload of a name that it has, and may refuse to remove.                 *)
(***************************************************************************)
EXTENDS OfficeRequests

CONSTANTS Files,        \* names that the presignUpload of attachments makes,
          InvoiceFiles, \* and that of invoices, one for each call
          Attachments,  \* identifiers for rows of document_attachments
          Uploads,      \* identifiers for rows of invoice_uploads
          Bills         \* numbers of bills that are archived

ASSUME FileStoreAssumption ==
  None \notin Files \cup InvoiceFiles \cup Attachments \cup Uploads \cup Bills

VARIABLES objects,     \* what the store has
          attachment,  \* the file of each attachment, None: no row
          upload,      \* filePath of each upload
          paths,       \* xmlPath and pdfPath of each bill: those not null
          backed,      \* history: attachments whose file was there when they
                       \* were registered, that share it with no other row,
                       \* and whose removal was not cut short
          excused      \* history: files that nobody registered since they were
                       \* uploaded, or that the store refused to remove

storeRows == <<objects, attachment, upload, paths>>
storeHistory == <<backed, excused>>
storeVars == <<requestVars, storeRows, storeHistory>>

StorePC == {"removeFile", "removeRow", "storeXml", "storePdf", "writePaths"}

\* A name in a bucket: how often the name of the bucket precedes it again.
AttachmentObject(file) == <<"document-attachments", 0, file>>
InvoiceObject(folders, file) == <<"invoice-pdfs", folders, file>>
DianObject(kind, bill) == <<kind, 0, bill>>

NoPath == <<0, None>>

StoreInit ==
  /\ RequestsInit
  /\ objects = {}
  /\ attachment = [a \in Attachments |-> None]
  /\ upload = [u \in Uploads |-> NoPath]
  /\ paths = [b \in Bills |-> {}]
  /\ backed = {} /\ excused = {}

RowsWith(file) == {a \in Attachments : attachment[a] = file}
Removing(file) == \E r \in Requests : sheet[r].other = file

-----------------------------------------------------------------------------
\* presignUpload, then the PUT of the browser, once or again while the URL
\* lasts.
UploadAttachment(file) ==
  /\ AttachmentObject(file) \notin objects
  /\ objects' = objects \cup {AttachmentObject(file)}
  /\ excused' = excused \cup {file}
  /\ UNCHANGED <<requestVars, attachment, upload, paths, backed>>

\* create: the path that the client says, if it has the right form; nobody
\* looks for the file, nor for another row that has it.
CreateAttachment(a, file) ==
  /\ attachment[a] = None /\ Free(a)
  /\ attachment' = [attachment EXCEPT ![a] = file]
  /\ backed' = IF /\ AttachmentObject(file) \in objects
                  /\ RowsWith(file) = {} /\ ~Removing(file)
               THEN backed \cup {a} ELSE backed \ (RowsWith(file) \cup {a})
  /\ excused' = excused \ {file}
  /\ UNCHANGED <<requestVars, objects, upload, paths>>

\* remove, of a row that exists: first the file, then the row; also, the
\* row first.
RowThenFile == <<"removeRow", "removeFile">>
RemovalOrder == <<"removeFile", "removeRow">>

BeginRemoval(r, a) ==
  /\ attachment[a] # None
  /\ Begin(r, RemovalOrder[1], Sheet(a, attachment[a], None, 0))
  /\ UNCHANGED <<storeRows, storeHistory>>

\* The statement that follows in a removal, if there is one.
GoOn(r) ==
  IF pc[r] = RemovalOrder[1] THEN Goto(r, RemovalOrder[2]) /\ UNCHANGED stale
  ELSE Finish(r)

\* The error that the store may answer is not looked at.
RemoveFile(r) ==
  LET file == sheet[r].other IN
  /\ pc[r] = "removeFile"
  /\ \/ objects' = objects \ {AttachmentObject(file)} /\ UNCHANGED excused
     \/ excused' = excused \cup {file} /\ UNCHANGED objects
  /\ GoOn(r)
  /\ UNCHANGED <<attachment, upload, paths, backed>>

\* delete; it throws when the row is not there any more.
RemoveRow(r) ==
  LET a == sheet[r].row IN
  /\ pc[r] = "removeRow"
  /\ attachment' = [attachment EXCEPT ![a] = None]
  /\ GoOn(r)
  /\ UNCHANGED <<objects, upload, paths, storeHistory>>

-----------------------------------------------------------------------------
\* presignUpload of an invoice signs, inside the bucket, the whole path that
\* it returns.
UploadInvoice(file) ==
  /\ objects' = objects \cup {InvoiceObject(1, file)}
  /\ UNCHANGED <<requestVars, attachment, upload, paths, storeHistory>>

\* create: the first folder of the path has to be the bucket, and the rest of
\* it is downloaded and read; the row keeps the whole path.  What is read of
\* the invoice, and the customer that update gives it, are left out.
Rest(folders) == folders - 1

RegisterUpload(u, folders, file) ==
  /\ upload[u] = NoPath /\ folders # 0
  /\ InvoiceObject(Rest(folders), file) \in objects
  /\ upload' = [upload EXCEPT ![u] = <<folders, file>>]
  /\ UNCHANGED <<requestVars, objects, attachment, paths, storeHistory>>

-----------------------------------------------------------------------------
\* archiveDocuments: each document that could be downloaded, the XML first;
\* when the store fails, neither is written to the bill.
BeginArchive(r, b) ==
  /\ \A q \in Requests : sheet[q].row # b
  /\ Begin(r, "storeXml", Sheet(b, None, {}, 0))
  /\ UNCHANGED <<storeRows, storeHistory>>

ArchiveOne(r, kind, next) ==
  LET b == sheet[r].row
      archived == sheet[r].wanted
  IN
  /\ \/ /\ objects' = objects \cup {DianObject(kind, b)}
        /\ Carry(r, next, Sheet(b, None, archived \cup {kind}, 0))
     \/ /\ UNCHANGED objects
        /\ \/ Carry(r, next, Sheet(b, None, archived, 0))
           \/ Carry(r, "writePaths", Sheet(b, None, {}, 0))
  /\ UNCHANGED <<stale, attachment, upload, paths, storeHistory>>

StoreXml(r) == pc[r] = "storeXml" /\ ArchiveOne(r, "xml", "storePdf")
StorePdf(r) == pc[r] = "storePdf" /\ ArchiveOne(r, "pdf", "writePaths")

WritePaths(r) ==
  /\ pc[r] = "writePaths"
  /\ paths' = [paths EXCEPT ![sheet[r].row] = sheet[r].wanted]
  /\ FinishWriting(r, sheet[r].row)
  /\ UNCHANGED <<objects, attachment, upload, storeHistory>>

\* A removal that is cut short between its statements.
CutStore(r) ==
  /\ CutShort(r)
  /\ backed' = IF pc[r] = RemovalOrder[2] THEN backed \ {sheet[r].row} ELSE backed
  /\ UNCHANGED <<storeRows, excused>>

StoreNext ==
  \/ \E file \in Files :
       \/ UploadAttachment(file)
       \/ \E a \in Attachments : CreateAttachment(a, file)
  \/ \E file \in InvoiceFiles :
       \/ UploadInvoice(file)
       \/ \E u \in Uploads, folders \in 1 .. 2 : RegisterUpload(u, folders, file)
  \/ \E r \in Requests :
       \/ \E a \in Attachments : BeginRemoval(r, a)
       \/ \E b \in Bills : BeginArchive(r, b)
       \/ RemoveFile(r) \/ RemoveRow(r) \/ StoreXml(r) \/ StorePdf(r)
       \/ WritePaths(r) \/ CutStore(r)

StoreSpec == StoreInit /\ [][StoreNext]_storeVars

-----------------------------------------------------------------------------
\* Types of the rows, of the store and of the sheets of this desk.
StoreTypeOK ==
  /\ attachment \in [Attachments -> Files \cup {None}]
  /\ DOMAIN upload = Uploads /\ paths \in [Bills -> SUBSET {"xml", "pdf"}]
  /\ backed \subseteq Attachments /\ excused \subseteq Files
  /\ \A r \in Requests :
       /\ pc[r] \in {"removeFile", "removeRow"} =>
            sheet[r].row \in Attachments /\ sheet[r].other \in Files
       /\ pc[r] \in {"storeXml", "storePdf", "writePaths"} =>
            sheet[r].row \in Bills /\ sheet[r].wanted \subseteq {"xml", "pdf"}

\* An attachment that was registered with its file keeps it until it is
\* removed; a file goes with its row, unless the store refuses (remove); the
\* documents of a bill can be downloaded when it says so (archiveDocuments,
\* getDianDocument), and so can an upload that was registered (create,
\* getSignedReadUrl).
RowsHaveFiles ==
  /\ \A a \in backed :
       attachment[a] # None /\ ~Removing(attachment[a])
         => AttachmentObject(attachment[a]) \in objects
  /\ \A file \in Files \ excused :
       AttachmentObject(file) \in objects /\ ~Removing(file) => RowsWith(file) # {}
  /\ \A b \in Bills : \A kind \in paths[b] : DianObject(kind, b) \in objects
  /\ \A u \in Uploads : upload[u] # NoPath =>
       InvoiceObject(Rest(upload[u][1]), upload[u][2]) \in objects
=============================================================================
