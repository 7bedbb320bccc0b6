-------------------------- MODULE MCTagBulkJournal --------------------------
EXTENDS TagBulkJournal

CONSTANTS a, b, x, y

McImages == {a, b}
McTags == {x, y}
McSpellings == {"lower", "Upper"}

Row(spelling, grade) == <<spelling, grade>>
Only(t, row) == [n \in {t} |-> row]

McStartRows == Only(x, Row("lower", 1))
McForeign == {Only(x, Row("lower", 2)), Only(y, Row("lower", 1))}

\* A new spelling, a new name, a tag for all, a tag for none, what is not sure.
McRequests ==
    { [kind |-> "find_replace", find |-> x, put |-> x, as |-> "Upper"],
      [kind |-> "find_replace", find |-> y, put |-> x, as |-> "lower"],
      [kind |-> "bulk_add", add |-> {y}, as |-> "lower", grade |-> 2],
      [kind |-> "bulk_remove", drop |-> {x}],
      [kind |-> "cleanup", least |-> 2] }
=============================================================================
