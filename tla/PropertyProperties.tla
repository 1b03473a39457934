--------------------------- MODULE PropertyProperties ---------------------------
(***************************************************************************)
(* What the intake of a property must keep true.                           *)
(***************************************************************************)
EXTENDS PropertyIntake

\* Each variable has the shape the other definitions rely on: the job of the listing service,
\* the property row (db/models/property.py) and what a tab holds.
TypeOK ==
  /\ job.pc \in {"idle", "hasdata", "http", "browser", "done", "failed"}
  /\ job.redirects \in 0 .. MaxRedirects
  /\ row \in Row \cup {None}
  /\ listing \in [FormFields -> Listed \cup {None}] \cup {None}
  /\ \A t \in Tabs :
       /\ tabs[t].page \in {"closed", "verify", "assumptions"}
       /\ tabs[t].cache \in Row \cup {None}
       /\ tabs[t].form \in Form
       /\ tabs[t].touched \subseteq FormFields

\* The sources of a page that a provider reads, by the field tables they are read with.
SourcesOf(provider) ==
  IF provider = "zillow"
  THEN [json_ld |-> ZillowJsonLd, structured |-> ZillowNextData,
        title |-> ZillowTitle, visible |-> ZillowVisible]
  ELSE [json_ld |-> RedfinJsonLd, structured |-> RedfinEmbedded]

\* Reading a page source after source and keeping the first value (record_field) amounts to
\* keeping the most trusted one of every field, whatever the page holds, except for the address
\* and the description, of which JSON-LD has the first and a less trusted word.
BestSourceWins ==
  \A provider \in Providers :
    LET tables == SourcesOf(provider)
        page == job.read.listing
        result == Extract(provider, page).found
    IN  job.read # None =>
          \A s \in DOMAIN tables :
            page[s] # None =>
              \A f \in DOMAIN tables[s] \cap page[s] :
                /\ f \in DOMAIN result
                /\ result[f].confidence >= tables[s][f] \/ f \in DOMAIN JsonLdAddress

\* Every extraction is answered (ListingService.extract): redirects run out, and a page that
\* gives too little is fetched once more in the browser and no further.
ExtractionEnds == (job.pc \in {"hasdata", "http", "browser"}) ~> (Answered \/ job.pc = "idle")

\* The row keeps a property and a verified snapshot of it that two requests of a browser
\* computed; of no field do they say different things, whoever saved last and in what order,
\* except that a field that was emptied is null in the one and as listed in the other.
CopiesAgree ==
  row # None /\ row.verified # None =>
    \A f \in FormFields :
      \/ row.property[f] = row.verified[f].final
      \/ row.property[f] = None /\ row.verified[f].final = listing[f]

\* The value analyses use.
InForce(detail0, f) == IF detail0.verified # None THEN detail0.verified[f].final ELSE detail0.property[f]

\* A save changes the value in force of a field only if its user edited that field, or if the
\* copy it was built from was no longer the row: nobody's correction is undone by a tab that
\* was up to date, through all refetches, resets of the form and late requests.
LostOnlyWhenStale ==
  [][row # None /\ row' # row =>
       \E save \in {late} \cup {tabs[t].save : t \in Tabs} :
         /\ save # None
         /\ row' = Stored(save)
         /\ \A f \in FormFields :
              InForce(row', f) # InForce(row, f) => f \in save.touched \/ save.base # row]_vars

\* The price an analysis is started with is the verified price of the snapshot it is started on,
\* unless the user typed another one or the tab showed an older property (the price comes from
\* the tab, the snapshot from the server).
PricedAsVerified ==
  started # None /\ ~started.typed /\ started.current =>
    started.price = started.row.verified[PriceField].final

Final(answer) == answer # None /\ answer.status \in {"completed", "failed"}

\* A tab that follows an analysis shows that it ended, or an error: polling goes on through
\* pending and running (shouldPollAnalysis), and each page of the two sends the reader to the
\* right one.
EndIsShown ==
  (watch.about = TheAnalysis /\ Final(detail[TheAnalysis])) ~>
    \/ watch.error
    \/ /\ watch.data = detail[TheAnalysis]
       /\ watch.page = IF watch.data.status = "completed" THEN "report" ELSE "progress"

===============================================================================
