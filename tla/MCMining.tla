------------------------------ MODULE MCMining ------------------------------
(* Instances of Mining for TLC.                                            *)
EXTENDS Mining

CONSTANTS a, b, h

\* Three pages, of which the second or two are scans; a page that is a scan
\* first; wording that two pages repeat; two sections; nothing but scans;
\* one that opens with a heading; more sections than chunks are allowed.
Doc(p, s) == [pages |-> p, scanned |-> s]
SomeDocuments ==
  {Doc(<<<<a, b>>, <<a, h>>, <<b>>>>, s) : s \in {{}, {2}, {2, 3}}}
    \cup {Doc(<<<<a>>, <<b, b, a>>>>, {1}), Doc(<<<<a, b>>>>, {1})}
    \cup {Doc(<<<<a>>, <<a>>, <<b>>, <<a>>>>, {}), Doc(<<<<h, a>>>>, {}),
          Doc(<<<<h, h, h>>>>, {})}
=============================================================================
