------------------------------- MODULE Office -------------------------------
(***************************************************************************)
(* The desks of the office under one specification.  No statement of one   *)
(* desk reads or writes a column that another one writes, so that their    *)
(* interleavings show nothing that each desk alone does not: a behaviour   *)
(* is one of a desk, chosen at the start, with the requests that crowd it. *)
(***************************************************************************)
EXTENDS Sourcing, Resolutions, FactusSync, ServiceBilling, Directory,
        RecurringServices, LineMoney, Listings, FileStore, Mailing

VARIABLE desk

Desks == {"sourcing", "resolutions", "sync", "services", "directory",
          "recurring", "lines", "listings", "files", "mail"}

sourcingRows == <<documentVars, counter>>
resolutionTables == <<resolutionRows, numberVars>>
syncRows == <<rangeVars, companyVars>>
serviceRows == <<service, invoice, numbering>>
directoryRows == <<table, entry>>
recurringRows == <<recurring, halfMoved>>
fileRows == <<storeRows, storeHistory>>
mailRows == <<mailedRows, mailHistory>>
allRows == <<sourcingRows, resolutionTables, syncRows, serviceRows,
             directoryRows, recurringRows, lines, listingVars, fileRows, mailRows>>
officeVars == <<desk, requestVars, allRows>>

\* What a desk that is not served holds makes no difference.
Init ==
  /\ SourcingInit /\ ResolutionsInit /\ SyncInit /\ ServicesInit
  /\ DirectoryInit /\ RecurringInit /\ LinesInit
  /\ ListingsInit /\ StoreInit /\ MailInit
  /\ desk \in Desks
  /\ desk # "directory" => table = "categories"
  /\ desk # "sync" => company = CHOOSE data \in CompanyData : TRUE
  /\ desk # "listings" => listing = Invoices

AtSourcing ==
  /\ desk = "sourcing" /\ SourcingNext
  /\ UNCHANGED <<resolutionTables, syncRows, serviceRows, directoryRows,
                 recurringRows, lines, listingVars, fileRows,
                 mailRows>>
AtResolutions ==
  /\ desk = "resolutions" /\ ResolutionsNext
  /\ UNCHANGED <<sourcingRows, syncRows, serviceRows, directoryRows,
                 recurringRows, lines, listingVars, fileRows,
                 mailRows>>
AtSync ==
  /\ desk = "sync" /\ SyncNext
  /\ UNCHANGED <<sourcingRows, resolutionTables, serviceRows, directoryRows,
                 recurringRows, lines, listingVars, fileRows,
                 mailRows>>
AtServices ==
  /\ desk = "services" /\ ServicesNext
  /\ UNCHANGED <<sourcingRows, resolutionTables, syncRows, directoryRows,
                 recurringRows, lines, listingVars, fileRows,
                 mailRows>>
AtDirectory ==
  /\ desk = "directory" /\ DirectoryNext
  /\ UNCHANGED <<sourcingRows, resolutionTables, syncRows, serviceRows,
                 recurringRows, lines, listingVars, fileRows,
                 mailRows>>
AtRecurring ==
  /\ desk = "recurring" /\ RecurringNext
  /\ UNCHANGED <<sourcingRows, resolutionTables, syncRows, serviceRows,
                 directoryRows, lines, listingVars, fileRows,
                 mailRows>>
AtLines ==
  /\ desk = "lines" /\ LinesNext
  /\ UNCHANGED <<requestVars, sourcingRows, resolutionTables, syncRows,
                 serviceRows, directoryRows, recurringRows,
                 listingVars, fileRows, mailRows>>
AtListings ==
  /\ desk = "listings" /\ ListingsNext
  /\ UNCHANGED <<requestVars, sourcingRows, resolutionTables, syncRows,
                 serviceRows, directoryRows, recurringRows,
                 lines, fileRows, mailRows>>
AtFiles ==
  /\ desk = "files" /\ StoreNext
  /\ UNCHANGED <<sourcingRows, resolutionTables, syncRows, serviceRows,
                 directoryRows, recurringRows, lines,
                 listingVars, mailRows>>
AtMail ==
  /\ desk = "mail" /\ MailNext
  /\ UNCHANGED <<sourcingRows, resolutionTables, syncRows, serviceRows,
                 directoryRows, recurringRows, lines,
                 listingVars, fileRows>>

Next ==
  /\ UNCHANGED desk
  /\ \/ AtSourcing \/ AtResolutions \/ AtSync \/ AtServices
     \/ AtDirectory \/ AtRecurring \/ AtLines \/ AtListings
     \/ AtFiles \/ AtMail

Spec == Init /\ [][Next]_officeVars

-----------------------------------------------------------------------------
\* Types of the desk that is served and of what its requests work on.
OfficeTypeOK ==
  /\ desk \in Desks
  /\ stale \subseteq Requests
  /\ DOMAIN pc = Requests /\ DOMAIN sheet = Requests
  /\ desk = "sourcing" => SourcingTypeOK
  /\ desk = "resolutions" => ResolutionsTypeOK
  /\ desk = "sync" => SyncTypeOK
  /\ desk = "services" => ServicesTypeOK
  /\ desk = "directory" => DirectoryTypeOK
  /\ desk = "recurring" => RecurringTypeOK
  /\ desk = "lines" => LinesTypeOK
  /\ desk = "listings" => ListingsTypeOK
  /\ desk = "files" => StoreTypeOK
  /\ desk = "mail" => MailTypeOK
=============================================================================
