---- MODULE MCDirtyList ----
EXTENDS DirtyList
====
