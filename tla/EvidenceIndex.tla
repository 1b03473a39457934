---------------------------- MODULE EvidenceIndex ----------------------------
(***************************************************************************)
(* What an agent may cite (agent_research/evidence.py): the index of the   *)
(* sources, citations and fields of one property, and the validation of a  *)
(* reference against it.  Field paths are told apart by their root.        *)
(***************************************************************************)
EXTENDS Naturals, SequencesExt

CONSTANT None

(***************************************************************************)
(* context   listing, underwriting: whether there is an extraction and a   *)
(*           result; research: per domain, None or the keys of its sources *)
(*           and its citations                                             *)
(* index     sources: by id, the kind and the citations; citations: by id, *)
(*           the source; paths: the roots there are                        *)
(* A source id is the label it is made of and a number, a citation id the  *)
(* id of its source and a number.                                          *)
(***************************************************************************)
Domains == {"public_records", "sales_comps", "rental_comps", "neighborhood"}

Verified == <<"verified_property", 0>>
Underwriting == <<"underwriting", 0>>
Foreign == <<"another_property", 0>>

Put(dict, key, value) == [k \in DOMAIN dict \cup {key} |-> IF k = key THEN value ELSE dict[k]]

Register(index, ids, kind) ==
  [index EXCEPT !.sources = [id \in DOMAIN index.sources \cup ids |->
                              IF id \in ids THEN [kind |-> kind, citations |-> {}] ELSE index.sources[id]]]

Empty == [sources |-> <<>>, citations |-> <<>>, paths |-> {}]

\* The later of two sources of the same key is found; a citation with a note finds none.
SourceOf(domain, result, citation) ==
  LET of == {i \in DOMAIN result.sources : result.sources[i] = citation.key}
  IN  IF citation.noted \/ of = {} THEN None
      ELSE <<domain, CHOOSE i \in of : \A j \in of : j <= i>>

Times(citations, n) == Cardinality({i \in 1 .. n - 1 : citations[i] = citations[n]})

\* A citation of no source is given one of its own; the n-th counts its equals before it.
Cite(index, domain, result, n) ==
  LET found == SourceOf(domain, result, result.citations[n])
      id == IF found = None THEN <<"citation_source", Cardinality(DOMAIN index.sources)>> ELSE found
      sourced == IF found = None THEN Register(index, {id}, "citation_only") ELSE index
      citation == <<id, Times(result.citations, n)>>
  IN  [sourced EXCEPT !.citations = Put(@, citation, id),
                      !.sources[id].citations = @ \cup {citation}]

IndexResearch(index, domain, result) ==
  LET cited[n \in 0 .. Len(result.citations)] ==
        IF n = 0 THEN Register(index, {<<domain, i>> : i \in DOMAIN result.sources}, "research")
        ELSE Cite(cited[n - 1], domain, result, n)
  IN  cited[Len(result.citations)]

\* build_evidence_index, without and with the research of a domain.
OwnEvidence(context) ==
  LET property == [Register(Empty, {Verified}, "verified_property")
                     EXCEPT !.paths = {"verified_property", "unresolved_verified_fields"}]
      listing == IF ~context.listing THEN property
                 ELSE [Register(property, {<<"listing_extraction", 0>>}, "listing_extraction")
                         EXCEPT !.paths = @ \cup {"listing", "listing_snapshot", "listing_history"}]
  IN  IF ~context.underwriting THEN listing
      ELSE [Register(listing, {Underwriting}, "underwriting") EXCEPT !.paths = @ \cup {"underwriting"}]

WithResearch(index, domain, result) ==
  IF result = None THEN index ELSE IndexResearch(index, domain, result)

BuildIndex(context) ==
  LET public == WithResearch(OwnEvidence(context), "public_records", context.research["public_records"])
      sales == WithResearch(public, "sales_comps", context.research["sales_comps"])
      rental == WithResearch(sales, "rental_comps", context.research["rental_comps"])
  IN  WithResearch(rental, "neighborhood", context.research["neighborhood"])

-----------------------------------------------------------------------------
(***************************************************************************)
(* A reference names a source, and a citation (or None) or the fields it   *)
(* read; what type of source it says it is nobody compares with the index. *)
(***************************************************************************)

Owned(source) == source # Foreign

\* A path from one of the tools' payloads may stand for one of several of the index.
CandidatePaths(root) ==
  CASE root = "property" -> {"property", "listing", "listing_snapshot", "verified_property"}
    [] root = "field_provenance" -> {"field_provenance", "listing", "listing_snapshot"}
    [] root = "metadata" -> {"metadata", "listing_snapshot"}
    [] root \in {"price_history", "sale_history"} -> {root, "listing_history"}
    [] OTHER -> {root}

\* Whatever source the citation is of.
ValidAnyCitation(ref, index) == Owned(ref.source) /\ ref.source \in DOMAIN index.sources

\* validate_evidence_reference.
ValidReference(ref, index) ==
  /\ Owned(ref.source)
  /\ ref.source \in DOMAIN index.sources
  /\ ref.citation # None =>
       ref.citation \in DOMAIN index.citations /\ index.citations[ref.citation] = ref.source
  /\ \A i \in DOMAIN ref.path : CandidatePaths(ref.path[i]) \cap index.paths # {}
  /\ LET kind == index.sources[ref.source].kind
     IN  /\ kind = "verified_property" =>
              \E i \in DOMAIN ref.path : "verified_property" \in CandidatePaths(ref.path[i])
         /\ kind = "underwriting" => ref.path # <<>> /\ ref.path[1] = "underwriting"

===============================================================================
