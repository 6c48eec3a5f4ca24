SPECIFICATION RecordsSpec
CONSTANTS
  Null = Null
  Wine <- MCWine
  Alike <- MCAlike
  Parcels <- MCParcels
  Notes <- MCNotes
  Communities = {80}
  Exports <- MCExports
  Months = {3, 4}
  MaxBottles = 2
  MaxNotes = 2
  CurrentYear = 2026
  Shown = 1
  Canonical <- MCCanonical
  Terms <- MCTerms
  Styles = {"Red"}
  Nested <- MCNested
  Declarations <- MCDeclarations
  Prices = {40, Null}
  Queries <- MCQueries
  Foods <- MCFoods
  Cheeses <- MCCheeses
  Enough = 1
  Leading = 1
  Listed = 2
  Page = 1
INVARIANTS
  RecordsInvariant
  ReportsReconcile
  AdviceAgrees
CHECK_DEADLOCK FALSE
