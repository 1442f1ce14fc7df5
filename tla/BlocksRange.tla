---------------------------- MODULE BlocksRange ----------------------------
(***************************************************************************)
(* How a span of block heights is cut into the groups that are fetched     *)
(* together: blocks_range of crates/utils.  The program builds std Ranges  *)
(* and then reads both ends of each one as INCLUSIVE heights.              *)
(***************************************************************************)
EXTENDS Integers

\* The group that starts at height first, for the exclusive end limit of the
\* whole span.  Its end is first + batch - 1, cut at limit itself: the last
\* group of a span can reach one height past the last one asked for.
Group(first, limit, batch) ==
    [start |-> first,
     end   |-> IF first + batch - 1 < limit THEN first + batch - 1 ELSE limit]

\* (first .. limit).step_by(batch): the heights at which a group starts.
GroupStarts(first, limit, batch) ==
    {h \in first .. (limit - 1) : (h - first) % batch = 0}

\* The groups of a span, as the set of their (start, end) records.
Groups(first, limit, batch) ==
    {Group(h, limit, batch) : h \in GroupStarts(first, limit, batch)}

\* Fault variant: a group's end read as exclusive, as a std Range suggests.
HeightsExclusive(group) == group.start .. (group.end - 1)

\* The heights of a group as get_blocks reads them: both ends included.
Heights(group) == group.start .. group.end
=============================================================================
