--------------------------- MODULE MCPropertyIntake ---------------------------
(* Pages that hold much or little, in each of the sources. *)
EXTENDS PropertyProperties

Page(ld, structured, title, visible) ==
  [s \in {"json_ld", "structured", "title", "visible"} |->
    CASE s = "json_ld" -> ld [] s = "structured" -> structured
      [] s = "title" -> title [] s = "visible" -> visible]

Everything == MinimumRequired \cup AddressParts \cup {"lot_square_feet", "description"}

\* A full page, one without a price in its state, a page for people only, one with a title,
\* one whose facts are all that is readable, and one that holds nothing.
SomeListings ==
  {Page({"street", "description"}, Everything, {"full_address"}, {"asking_price"} \cup Facts),
   Page(None, Everything \ {"asking_price"}, None, {"asking_price"}),
   Page({"city"}, None, {"full_address"}, {"asking_price", "bedrooms"}),
   Page({"city", "latitude"}, None, None, Facts),
   Page(None, {"lot_square_feet", "bedrooms"}, {"full_address"}, {"asking_price"}),
   Page(None, None, None, None)}

SomePayloads ==
  {[inParts |-> TRUE, given |-> Everything],
   [inParts |-> FALSE, given |-> {"full_address", "lot_square_feet"}]}

===============================================================================
