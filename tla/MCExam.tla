------------------------------- MODULE MCExam -------------------------------
(***************************************************************************)
(* Exam compared with what it is for: every database that at most four     *)
(* insertions and deletions lead to, and papers composed from up to four   *)
(* problems of two tags, two sections and three difficulties.              *)
(***************************************************************************)
EXTENDS Exam

Blank(ans) == Problem(0, 1, 1, 1, 1, ans)

\* The files of at most four changes: an insertion is a problem, a deletion
\* an id.
Changed(files) ==
    files \cup {Stored(f, Blank(ans)) : f \in files, ans \in {"A", "B"}}
          \cup {Deleted(f, id) : f \in files, id \in 1 .. 4}
ProblemFiles == FoldLeft(LAMBDA files, n : Changed(files), {<<>>}, <<1, 2, 3, 4>>)

\* What a paper refers to is found by its id, so the ids are different; read
\* again, the numbers of the list are right.
ASSUME IdsAreOwn ==
    \A file \in ProblemFiles :
        LET list == ListOf(file)
        IN  /\ ToSet(list.items) = ToSet(file) /\ Len(list.items) = Len(file)
            /\ \A i, j \in DOMAIN file : file[i].id = file[j].id => i = j
            /\ list.count = Len(file)
            /\ \A i \in DOMAIN file : file[i].id \in 1 .. list.max_id

\* The id of the last problem is given again when it is deleted: a paper that
\* has it then asks another problem.
ASSUME IdsComeBack ==
    \E file \in ProblemFiles, ans \in {"A", "B"} :
        LET id == ListOf(file).max_id
            later == ListOf(Stored(Deleted(file, id), Blank(ans))).items
        IN  /\ id > 0 /\ IndexOf(later, id) # 0
            /\ later[IndexOf(later, id)] # ListOf(file).items[IndexOf(ListOf(file).items, id)]

\* A random paper has as many different problems as it can.
ASSUME RandomPapersAreFull ==
    \A file \in ProblemFiles, n \in 0 .. 5 : \A pids \in RandomPapers(ListOf(file), n) :
        /\ Len(pids) = Min({n, Len(file)})
        /\ \A i \in DOMAIN pids : IndexOf(file, pids[i]) # 0

-----------------------------------------------------------------------------
Names == {"root", "x", "y"}
Passwords == {"root", "p"}
UserFiles ==
    FoldLeft(LAMBDA files, n : files \cup {AfterStudentLogin(f, name, passwd) :
                                   f \in files, name \in Names, passwd \in Passwords},
             {<<>>}, <<1, 2, 3>>)

\* A name is registered once, so a user keeps the scores; only root is a
\* teacher, and nobody gets in with another's name.
ASSUME UsersAreOwn ==
    \A users \in UserFiles, name \in Names, passwd \in Passwords :
        LET later == AfterStudentLogin(users, name, passwd)
        IN  /\ \A i, j \in DOMAIN later : later[i].name = later[j].name => i = j
            /\ IsPrefix(users, later)
            /\ {later[i].name : i \in {j \in DOMAIN later : later[j].teacher}} = {"root"}
            /\ LoginResult(later, name, passwd) > 0
                  <=> \E i \in DOMAIN later : later[i].name = name /\ later[i].passwd = passwd

-----------------------------------------------------------------------------
Kinds == {<<1, 1>>, <<1, 2>>, <<2, 1>>}

\* Lists of problems of the kinds: tag and section, the difficulty with them.
ProblemLists ==
    UNION {{ListOf([i \in 1 .. n |-> Problem(i, ks[i][1] + ks[i][2], ks[i][1], 1, ks[i][2], "A")]) :
               ks \in [1 .. n -> Kinds]} : n \in 1 .. 4}
TagKeys == {<<1>>, <<1, 2>>, <<2, 1>>}
SectionKeys ==
    LET key(s) == [chapter |-> 1, thousandths |-> s * 100]
    IN  {<<key(0)>>, <<key(1), key(2)>>}
Problems(list, pids) == {list.items[IndexOf(list.items, pids[i])] : i \in DOMAIN pids}

\* A paper has different problems and each is wanted.
ASSUME PapersAreWanted ==
    \A list \in ProblemLists, n \in 1 .. 4 :
        /\ \A tags \in TagKeys :
              LET pids == TagPaper(list, n, tags)
              IN  /\ IsInjective(pids)
                  /\ \A p \in Problems(list, pids) : p.tag \in ToSet(tags)
        /\ \A secs \in SectionKeys :
              LET pids == SectionPaper(list, n, secs)
              IN  /\ IsInjective(pids)
                  /\ \A p \in Problems(list, pids) : HasSection(p, secs)
        /\ \A a, b \in 2 .. 3 :
              LET pids == DifficultyPaper(list, n, a, b)
              IN  /\ IsInjective(pids)
                  /\ \A p \in Problems(list, pids) : p.dif \in Min({a, b}) .. Max({a, b})

\* A paper of tags may be one problem too long, because a key that has had its
\* share ends without a look at the length; and it may be too short, because a
\* key that finds too little leaves nothing to the next.
ASSUME TagPapersMissLength ==
    /\ \A list \in ProblemLists, n \in 1 .. 4, tags \in TagKeys :
          Len(TagPaper(list, n, tags)) <= n + 1
    /\ \E list \in ProblemLists, n \in 1 .. 4, tags \in TagKeys :
          Len(TagPaper(list, n, tags)) > n
    /\ \E list \in ProblemLists, n \in 1 .. 4, tags \in TagKeys :
          /\ Len(TagPaper(list, n, tags)) < n
          /\ \E i \in DOMAIN list.items :
                /\ list.items[i].tag \in ToSet(tags)
                /\ list.items[i].id \notin ToSet(TagPaper(list, n, tags))

\* A paper of difficulties is never too long; it ends early when one
\* difficulty has had its share.
ASSUME DifficultyPapersEndEarly ==
    /\ \A list \in ProblemLists, n \in 1 .. 4, a, b \in 2 .. 3 :
          Len(DifficultyPaper(list, n, a, b)) <= n
    /\ \E list \in ProblemLists, n \in 1 .. 4 :
          LET pids == DifficultyPaper(list, n, 2, 3)
          IN  Len(pids) < n /\ Len(pids) < Len(SelectSeq(list.items, LAMBDA p : p.dif \in 2 .. 3))

\* A mark is a percentage, and all right answers give a full one unless a
\* problem of the paper has been deleted.
ASSUME MarksAreOfPaper ==
    \A file \in {f \in ProblemFiles : f # <<>>}, id \in 1 .. 4 :
        \A pids \in RandomPapers(ListOf(file), 2) :
            LET list == ListOf(Deleted(file, id))
                known == {list.items[i].id : i \in DOMAIN list.items}
                right == [p \in known |-> list.items[IndexOf(list.items, p)].ans]
                mark == Mark(pids, list, right)
            IN  mark \in 0 .. 100 /\ (mark = 100 <=> id \notin ToSet(pids))
=============================================================================
