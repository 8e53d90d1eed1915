\* Two saves of one upload, a create, a change and a delete; the writes that may
\* leave something behind fail or lose their answer.
CONSTANTS
  Key = {k1}
  Sum = {h1}
  Saver = {s1, s2}
  Audio = {s1}
  Creator = {c1}
  Updater = {u1}
  Deleter = {d1}
  None = None
  Faulty = {"link", "insert", "enqueue", "softDelete"}
SPECIFICATION Spec
INVARIANTS CatalogueIsSound AttachedAsTold SubmittedIsKept
CHECK_DEADLOCK FALSE
