\* One export and one visitor, a reader or a participant, over three memories.
CONSTANTS
  m1 = m1
  m2 = m2
  tom = tom
  Memory = {m1, m2, m3}
  Section = {s1}
  Job = {j1}
  Visitor = {v1}
  Name = {tom}
  Null = Null
  NameOf <- MCNameOf
  LinksOf <- MCLinksOf
  ReadingFaulty = {"request", "render", "upload", "ready", "failed", "insert", "sources"}
  MaxActs = 2
SPECIFICATION ReadingSpec
INVARIANTS ExportRowIsTrue WordsStayOut AttributionIsTrue PageIsTheBook
CHECK_DEADLOCK FALSE
