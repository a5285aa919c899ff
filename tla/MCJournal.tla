---- MODULE MCJournal ----
(* Small instances of Journal for TLC. *)
EXTENDS Journal

CONSTANT u1

\* Page 0 is the superblock; page 1, the data, precedes the inode's page 2 on the
\* disk.  One operation writes three metadata pages, one more than a transaction
\* that is not committed in between holds.  An append of part of a block zeroes it
\* through the journal, and then writes the data and the inode, in the same
\* transaction or, after a commit, in the next.
MCPages == 0..3 \cup 10..18
MCWorkloads == {<<<<2, 3, 0>>>>, <<<<Zero>>, <<1, 2>>>>}
====
