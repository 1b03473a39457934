---------------------------- MODULE ListingSources ----------------------------
(***************************************************************************)
(* What the providers of listings make of a page or of an API payload: the *)
(* sources a page embeds are read in a fixed order, and of each field the  *)
(* first usable value is kept, with the confidence of its source           *)
(* (providers/common.py, zillow.py, redfin.py).  A value is what matters   *)
(* of it here: which source gave it and how much that source is trusted    *)
(* (in percent).                                                           *)
(*                                                                         *)
(* A listing is a function from the sources it holds to the fields each    *)
(* one gives a usable value for; a source the page lacks is None.          *)
(***************************************************************************)
EXTENDS Naturals, FiniteSets

CONSTANT None

Providers == {"zillow", "redfin"}

AddressParts == {"street", "city", "state", "postal_code"}
Geo == {"latitude", "longitude"}
Facts == {"bedrooms", "bathrooms", "square_feet"}
Dates == {"listing_date", "last_updated_date"}
People == {"listing_agent", "listing_brokerage"}

Scalars ==
  Geo \cup Facts \cup Dates \cup People \cup
  {"listing_id", "listing_status", "asking_price", "original_listing_price", "days_on_market",
   "property_type", "mls_number", "lot_square_feet", "year_built", "stories", "garage_spaces",
   "parking_description", "foundation_type", "roof_type", "heating", "cooling",
   "exterior_material", "annual_property_tax", "annual_hoa", "price_per_square_foot",
   "estimated_monthly_rent", "estimated_property_value", "description"}

Collections == {"features", "appliances", "school_names", "photos", "price_history", "sale_history"}

Fields == AddressParts \cup {"full_address"} \cup Scalars \cup Collections

MinimumRequired == {"full_address", "asking_price"} \cup Facts

(***************************************************************************)
(* The fields each source may give, with the confidence they are recorded  *)
(* with.  At(S, c) gives every field of S the confidence c.                *)
(***************************************************************************)
At(S, c) == [f \in S |-> c]

\* The first of two functions where both are defined.
Or(f, g) == [x \in DOMAIN f \cup DOMAIN g |-> IF x \in DOMAIN f THEN f[x] ELSE g[x]]

JsonLdAddress == Or(At(AddressParts, 80), Or(At({"full_address"}, 85), At({"description"}, 70)))

ZillowJsonLd == Or(JsonLdAddress, At(Geo, 75))

RedfinJsonLd == JsonLdAddress

\* What the embedded state of both sites and HasData agree on.
Embedded ==
  Or(At({"full_address", "listing_id", "asking_price"}, 99),
  Or(At(AddressParts \cup Facts, 98),
  Or(At({"listing_status", "property_type"}, 95),
  Or(At({"original_listing_price", "description"}, 90),
     At(Dates, 85)))))

ZillowNextData ==
  Or(Embedded,
  Or(At({"lot_square_feet", "year_built", "price_per_square_foot", "photos"}, 95),
  Or(At({"garage_spaces", "stories"}, 90),
  Or(At({"annual_property_tax", "annual_hoa"}, 85),
     At({"foundation_type", "roof_type", "price_history"}, 80)))))

RedfinEmbedded ==
  Or(Embedded,
  Or(At({"lot_square_feet", "year_built", "price_per_square_foot", "photos"}, 90),
  Or(At({"garage_spaces", "stories"} \cup People, 85),
     At({"annual_property_tax", "annual_hoa", "features", "price_history", "sale_history"}, 80))))

\* HasData's address comes in parts, trusted as much as the price, or as one text.
HasDataAddress(inParts) ==
  IF inParts THEN At(AddressParts \cup {"full_address"}, 99) ELSE At({"full_address"}, 95)

HasDataFacts ==
  Or(At({"listing_id", "asking_price"}, 99),
  Or(At(Facts, 98),
  Or(At(Geo \cup {"listing_status", "property_type"}, 95),
  Or(At({"original_listing_price", "lot_square_feet", "year_built", "price_per_square_foot"}, 90),
     At({"stories", "garage_spaces"}, 85)))))

HasDataDetails ==
  Or(At({"description", "photos"}, 90),
  Or(At(Dates \cup People, 85),
     At({"annual_property_tax", "annual_hoa", "features", "price_history"}, 80)))

ZillowHasData(inParts) ==
  Or(HasDataAddress(inParts),
  Or(HasDataFacts,
  Or(At({"estimated_property_value"}, 85),
  Or(HasDataDetails, At({"estimated_monthly_rent", "appliances", "school_names"}, 80)))))

\* Redfin's adapter reads no address that is not in parts.
RedfinHasData(inParts) ==
  Or(IF inParts THEN HasDataAddress(TRUE) ELSE At({}, 0),
  Or(HasDataFacts, Or(HasDataDetails, At({"sale_history"}, 80))))

ZillowTitle == At({"full_address"}, 40)

ZillowVisible == At({"asking_price"} \cup Facts, 35)

-----------------------------------------------------------------------------
(* Recording the fields. *)

\* combine_address: a source that gives a part of the address gives an address.
WithAddress(given) ==
  given \cup (IF given \cap AddressParts = {} THEN {} ELSE {"full_address"})

\* What a source offers of what its table may hold.
Offer(source, table, given) ==
  IF given = None THEN [f \in {} |-> None]
  ELSE [f \in WithAddress(given) \cap DOMAIN table |-> [source |-> source, confidence |-> table[f]]]

\* A later value replaces an earlier one.
LastWins(store, offer) == Or(offer, store)

\* record_field: a field that has been filled keeps its value.
Record(store, offer) == Or(store, offer)

Nothing == [f \in {} |-> None]

ZillowRecord(listing) ==
  LET ld == Record(Nothing, Offer("json_ld", ZillowJsonLd, listing["json_ld"]))
      data == Record(ld, Offer("next_data", ZillowNextData, listing["structured"]))
      title == Record(data, Offer("html_meta", ZillowTitle, listing["title"]))
  IN  Record(title, Offer("visible_html", ZillowVisible, listing["visible"]))

RedfinRecord(listing) ==
  Record(Record(Nothing, Offer("json_ld", RedfinJsonLd, listing["json_ld"])),
         Offer("embedded_json", RedfinEmbedded, listing["structured"]))

ZillowMethod(listing, store) ==
  IF listing["structured"] # None THEN "next_data"
  ELSE IF "asking_price" \in DOMAIN store THEN "visible_html" ELSE "json_ld"

RedfinMethod(listing) == IF listing["structured"] # None THEN "embedded_json" ELSE "json_ld"

\* Four of the five fields the analysis cannot do without.
Insufficient(store) == Cardinality(DOMAIN store \cap MinimumRequired) < 4

BuildResult(provider, store, method) ==
  [provider |-> provider, found |-> store, method |-> method,
   missing |-> Fields \ DOMAIN store, insufficient |-> Insufficient(store)]

Extract(provider, listing) ==
  IF provider = "zillow"
  THEN LET store == ZillowRecord(listing)
       IN  BuildResult(provider, store, ZillowMethod(listing, store))
  ELSE BuildResult(provider, RedfinRecord(listing), RedfinMethod(listing))

ExtractPayload(provider, payload) ==
  LET table == IF provider = "zillow" THEN ZillowHasData(payload.inParts)
               ELSE RedfinHasData(payload.inParts)
  IN  BuildResult(provider, Offer("hasdata_api", table, payload.given), "hasdata_api")

===============================================================================
