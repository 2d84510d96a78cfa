-------------------------------- MODULE Exam --------------------------------
(***************************************************************************)
(* The examination program of coursedesign/exam: databases of problems,    *)
(* papers and scores, the ways to compose a paper, and taking it.          *)
(*                                                                         *)
(* A record is known by its id and by what the searches look at; texts are *)
(* left out.  A file is the sequence of its records.                       *)
(***************************************************************************)
EXTENDS Integers, FiniteSets, SequencesExt

Problem(id, dif, tag, chapter, section, ans) ==
    [id |-> id, dif |-> dif, tag |-> tag, chapter |-> chapter, section |-> section, ans |-> ans]

-----------------------------------------------------------------------------
(* Lists (list.c).                                                         *)

NoList == [items |-> <<>>, max_id |-> 0, count |-> 0]

\* list_insert puts in front, and takes the item for the one of the largest id.
Inserted(list, item) ==
    [items |-> <<item>> \o list.items, max_id |-> list.max_id + 1, count |-> list.count + 1]

\* list_restore: by their ids, which are different.
Restored(list) ==
    LET sorted == SortSeq(list.items, LAMBDA x, y : x.id < y.id)
        n == Len(sorted)
        last == IF n = 0 THEN 0 ELSE Last(sorted).id
    IN  [items |-> sorted, max_id |-> last, count |-> Min({n, last})]

\* read_file_to_list
ListOf(file) == Restored(FoldLeft(Inserted, NoList, file))

\* Where the record with the id is, 0 if there is none.
IndexOf(items, id) == SelectInSeq(items, LAMBDA x : x.id = id)

\* list_remove, which leaves the numbers as they are.
Removed(list, id) ==
    LET i == IndexOf(list.items, id)
    IN  IF i = 0 THEN list ELSE [list EXCEPT !.items = RemoveAt(@, i)]

-----------------------------------------------------------------------------
(* The teacher's changes.  The file that is written is the list.           *)

\* A record gets the id behind the largest (ui_teacher_insert, ui_paper_save,
\* ui_student_test).
Stored(file, record) ==
    LET list == ListOf(file)
    IN  Inserted(list, [record EXCEPT !.id = list.max_id + 1]).items

\* ui_teacher_delete
Deleted(file, id) ==
    IF IndexOf(ListOf(file).items, id) = 0 THEN file ELSE Removed(ListOf(file), id).items

\* ui_teacher_update: everything but the id.
Updated(file, id, problem) ==
    LET items == ListOf(file).items
        i == IndexOf(items, id)
    IN  IF i = 0 THEN file ELSE [items EXCEPT ![i] = [problem EXCEPT !.id = id]]

-----------------------------------------------------------------------------
(* Users (user.c).  The id of a user is the place in the file.             *)

NoUser == 0
WrongPassword == -2

\* user_reg
Registered(users, name, passwd, teacher) ==
    Append(users, [name |-> name, passwd |-> passwd, teacher |-> teacher])

\* user_init, when there is no file.
WithRoot(users) == IF users = <<>> THEN Registered(users, "root", "root", TRUE) ELSE users

\* user_login, of a file that has been made.
LoginResult(users, name, passwd) ==
    LET i == SelectInSeq(users, LAMBDA v : v.name = name)
    IN  IF i = 0 THEN NoUser ELSE IF users[i].passwd = passwd THEN i ELSE WrongPassword

\* ui_student_login: who is not known is registered.
AfterStudentLogin(users, name, passwd) ==
    IF LoginResult(WithRoot(users), name, passwd) = NoUser
    THEN Registered(WithRoot(users), name, passwd, FALSE) ELSE WithRoot(users)

-----------------------------------------------------------------------------
(* Composing a paper (paper.c).  A paper is the sequence of its pids, and  *)
(* has room for 254.                                                       *)

\* paper_insert_pid
WithPid(pids, id) == IF id \in ToSet(pids) THEN pids ELSE Append(pids, id)

\* paper_generate_random: ids at random until there are enough.
RandomPapers(list, n) ==
    LET ids == {list.items[i].id : i \in DOMAIN list.items}
    IN  {pids \in [1 .. Min({n, list.count}) -> ids] : IsInjective(pids)}

\* by_tags, given the rest of a list of int: the second half of each is zero,
\* and ends the list of short that it is read as.
HasTag(problem, tags) == problem.tag = tags[1]

\* by_secs, given the rest of a list that ends with zero: chapters, alone or
\* with a section behind the point, typed with at most three digits.
HasSection(problem, secs) ==
    \E i \in DOMAIN secs :
        /\ problem.chapter = secs[i].chapter
        /\ \/ secs[i].thousandths = 0
           \/ \E k \in 1 .. 6 : problem.section * 1000 = secs[i].thousandths * 10 ^ k

\* One problem in the search of paper_generate_tags and paper_generate_secs.
\* from is where the search goes on, and j counts what this key has brought.
Offered(s, i, items, matches, k, n) ==
    LET pids == WithPid(s.pids, items[i].id)
        j == s.j + Len(pids) - Len(s.pids)
    IN  IF s.at # "search" \/ i < s.from \/ ~matches THEN s
        ELSE IF j > s.j /\ j >= k
        THEN [s EXCEPT !.pids = pids, !.j = j, !.from = i, !.at = "next key"]
        ELSE IF Len(pids) >= n THEN [s EXCEPT !.pids = pids, !.at = "end"]
        ELSE [s EXCEPT !.pids = pids, !.j = j]

\* One key, with the places of what it matches.  A search to the end of the
\* list leaves nothing for the others.
Searched(s, items, matching, k, n) ==
    LET start == IF s.at = "end" THEN s ELSE [s EXCEPT !.j = 0, !.at = "search"]
        found == FoldLeft(LAMBDA t, i : Offered(t, i, items, i \in matching, k, n),
                          start, [i \in DOMAIN items |-> i])
    IN  IF found.at = "search" THEN [found EXCEPT !.from = Len(items) + 1] ELSE found

\* There is at least one key: with none the program divides by zero.
ByKeys(list, wanted, matchings) ==
    LET n == Min({wanted, list.count})
        k == n \div Len(matchings) + 1
    IN  FoldLeft(LAMBDA s, matching : Searched(s, list.items, matching, k, n),
                 [pids |-> <<>>, j |-> 0, from |-> 1, at |-> "search"], matchings).pids

From(keys, m) == SubSeq(keys, m, Len(keys))

TagPaper(list, wanted, tags) ==
    ByKeys(list, wanted, [m \in DOMAIN tags |->
        {i \in DOMAIN list.items : HasTag(list.items[i], From(tags, m))}])

SectionPaper(list, wanted, secs) ==
    ByKeys(list, wanted, [m \in DOMAIN secs |->
        {i \in DOMAIN list.items : HasSection(list.items[i], From(secs, m))}])

\* paper_generate_dif: as many of each difficulty as its share, and the end
\* when one has had it.
DifficultyPaper(list, wanted, a, b) ==
    LET n == Min({wanted, list.count})
        low == Min({a, b})
        high == Max({a, b})
        k == n \div (high - low + 1) + 1
        take(s, p) ==
            IF s.ended \/ p.dif \notin low .. high THEN s
            ELSE IF s.j[p.dif] >= k THEN [s EXCEPT !.ended = TRUE]
            ELSE [pids |-> WithPid(s.pids, p.id), j |-> [s.j EXCEPT ![p.dif] = @ + 1],
                  ended |-> Len(WithPid(s.pids, p.id)) >= n]
    IN  FoldLeft(take, [pids |-> <<>>, j |-> [d \in 0 .. 10 |-> 0], ended |-> FALSE],
                 list.items).pids

-----------------------------------------------------------------------------
(* Taking a paper (score.c).                                               *)

\* The problems of a paper that are still there are asked; answer has what
\* the student chooses for each.
Asked(pids, list) == SelectSeq(pids, LAMBDA id : IndexOf(list.items, id) # 0)

Right(pids, list, answer) ==
    Cardinality({i \in DOMAIN Asked(pids, list) :
        LET id == Asked(pids, list)[i] IN answer[id] = list.items[IndexOf(list.items, id)].ans})

\* The mark is of the length of the paper, not of what was asked.
Mark(pids, list, answer) == (Right(pids, list, answer) * 100) \div Len(pids)
=============================================================================
