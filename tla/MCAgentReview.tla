---------------------------- MODULE MCAgentReview ----------------------------
(* Answers that agree, repeat, contradict or cite what is not there. *)
EXTENDS ReviewProperties

Home == [distance |-> 0, square_feet |-> 20, bedrooms |-> 3, bathrooms |-> 2, year_built |-> 90]

Bare == [distance |-> 0, square_feet |-> None, bedrooms |-> None, bathrooms |-> None, year_built |-> None]

Comparable(distance, sqft, beds, year, age) ==
  [distance |-> distance, square_feet |-> sqft, bedrooms |-> beds, bathrooms |-> 2,
   year_built |-> year, age |-> age, status |-> "leased"]

Twin == Comparable(0, 20, 3, 90, 30)

\* The twin, three near in something, one known in nothing; and of those that the filters exclude
\* one for each: too far, too large, too many bedrooms or bathrooms, too old a house, too old a
\* sale, of another status.
Candidates ==
  {Twin, Comparable(2, 18, 3, 85, None), Comparable(2, 22, 4, 85, 100), Comparable(1, 25, 4, 70, 365),
   [Comparable(None, None, None, None, None) EXCEPT !.bathrooms = None],
   Comparable(6, 20, 3, 90, 10), Comparable(0, 26, 3, 90, 30), Comparable(0, 20, 5, 90, 30),
   [Twin EXCEPT !.bathrooms = 4], Comparable(0, 20, 3, 69, 30), Comparable(1, 20, 3, 90, 366),
   [Twin EXCEPT !.status = "active"]}

SomeSelections ==
  {[subject |-> s, candidates |-> <<c, d, e>>] : s \in {Home, Bare}, c, d, e \in Candidates}

NoResearch == [d \in Domains |-> None]

Records ==
  [sources |-> <<"county", "state", "county">>,
   citations |-> <<[key |-> "county", noted |-> FALSE], [key |-> "county", noted |-> FALSE],
                   [key |-> "county", noted |-> TRUE], [key |-> "gis", noted |-> FALSE],
                   [key |-> "gis", noted |-> FALSE]>>]

Sales == [sources |-> <<"mls">>, citations |-> <<[key |-> "mls", noted |-> FALSE]>>]

SomeContexts ==
  {[listing |-> TRUE, underwriting |-> TRUE,
    research |-> [NoResearch EXCEPT !["public_records"] = Records]],
   [listing |-> FALSE, underwriting |-> FALSE, research |-> NoResearch]}

\* A field confirmed by the user, extracted only, or absent; a listing; a public record.
Confirmed(v) == [value |-> v, status |-> "verified", confidence |-> None]
Extracted(v) == [value |-> v, status |-> "unverified", confidence |-> None]
Listing(v) == [value |-> v, confidence |-> None]
Public(v, government) == [value |-> v, confidence |-> 60, government |-> government]

Field(verified, listing, public) == [verified |-> verified, listing |-> listing, public |-> public]

SomeFacts ==
  {[bedrooms |-> f] : f \in
    {Field(Confirmed("three"), Listing("two"), Public("two", TRUE)),
     Field(Extracted("three"), Listing("three"), Public("two", TRUE)),
     Field(Extracted("three"), None, Public("two", FALSE)),
     Field(None, Listing("three"), Public("two", FALSE)),
     Field(Extracted("three"), Listing("three"), None)}}

BedroomsOnly == <<[field |-> "bedrooms", materiality |-> "medium"]>>

Reference(source, citation, path) ==
  [source |-> source, citation |-> citation, path |-> path, type |-> "research"]

OfProperty == Reference(Verified, None, <<"property">>)
OfRecords == Reference(<<"public_records", 3>>, <<<<"public_records", 3>>, 1>>, <<>>)
OfSales == Reference(<<"sales_comps", 1>>, <<<<"sales_comps", 1>>, 0>>, <<>>)
Mismatched == Reference(<<"public_records", 1>>, <<<<"public_records", 3>>, 0>>, <<>>)

Finding(id, text, evidence) ==
  [id |-> id, text |-> text, topics |-> {text}, confidence |-> 90, evidence |-> evidence]

Answer(findings, conflicts) ==
  [findings |-> findings, conflicts |-> conflicts, risks |-> <<>>, questions |-> <<>>,
   sources |-> {Verified}, confidence |-> 88, offences |-> {}]

RoofAge ==
  [topic |-> "roof", values |-> <<"old", "new">>, sources |-> <<Verified, Verified>>,
   materiality |-> "high"]

\* The same finding under an id of its own, under an id that others use too, findings with
\* citations, and one that cites what may not be there.
AnswersOf(a) ==
  {Answer(<<Finding(<<a, 1>>, "roof", <<OfProperty>>)>>, <<>>),
   Answer(<<Finding(<<"finding", 1>>, "roof", <<OfProperty>>),
            Finding(<<a, 2>>, "tax", <<OfProperty, OfRecords, OfProperty>>)>>, <<RoofAge>>),
   Answer(<<Finding(<<a, 3>>, "price", <<OfSales>>)>>, <<>>)}

RiskAnswer(evidence, offences) ==
  [Answer(<<Finding(<<Risk, 1>>, "roof", <<OfProperty>>)>>, <<>>)
     EXCEPT !.risks = <<[financial |-> TRUE, confidence |-> 95, evidence |-> <<evidence>>]>>,
            !.questions = <<[evidence |-> <<OfProperty>>]>>, !.offences = offences]

SomeAnswers ==
  [a \in Specialists \cup {Risk} |->
    CASE a = Risk -> {RiskAnswer(Reference(Underwriting, None, <<"underwriting">>), {}),
                      RiskAnswer(OfProperty, {}), RiskAnswer(OfProperty, {"diagnosis"})}
      [] a = "public_records" -> AnswersOf(a) \cup {Answer(<<Finding(<<a, 4>>, "tax", <<Mismatched>>)>>, <<>>)}
      [] a = "neighborhood" -> AnswersOf(a) \cup {[Answer(<<>>, <<>>) EXCEPT !.offences = {"fair_housing"}]}
      [] OTHER -> AnswersOf(a)]

===============================================================================
