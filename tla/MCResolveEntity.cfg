CONSTANTS
  Types = {"product", "productCategory"}
  Entities <- MCEntities
  Names <- MCNames
  TypeOf <- MCTypeOf
  NameOf <- MCNameOf
  Alike <- MCAlike
  Questions <- MCQuestions
  Extractions <- MCExtractions
  LookupName <- MCLookupName
  Ignored = "ignored"
  CandidateLimit = 1
  MaxLookups = 2
  MaxRounds = 2
  MaxChanges = 1
SPECIFICATION Spec
INVARIANTS
  NamesSettled
  PicksSound
  LiteralsAsSpecified
