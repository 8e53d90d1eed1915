\* Two requests to create a link, two changes, a revocation, a reader and two visits, a count that fails.
CONSTANTS
  First = first
  Creator = {l1, l2}
  Changer = {u1, u2}
  Revoker = {x1}
  Reader = {r1}
  Visit = {v1, v2}
  Payload <- McPayload
  None = None
  Faulty = {"count"}
SPECIFICATION Spec
SYMMETRY Symmetry
INVARIANTS LinksAreSound VisitWasAllowed OpensAddUp
CHECK_DEADLOCK FALSE
