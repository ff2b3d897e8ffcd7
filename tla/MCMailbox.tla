----------------------------- MODULE MCMailbox -----------------------------
(***************************************************************************)
(* Two mailboxes and three handlers with one maildir.                      *)
(***************************************************************************)
EXTENDS Mailbox, TLC

Whoever     == [any |-> TRUE, not |-> FALSE, of |-> {}]
Only(a) == [any |-> FALSE, not |-> FALSE, of |-> {a}]
Not(a)  == [any |-> FALSE, not |-> TRUE, of |-> {a}]

PartOf(n, v) == [name |-> n, body |-> v]
MailOf(from, date, reply, parts) ==
    [from |-> from, to |-> {"ops"}, subject |-> "data", reply |-> reply,
     date |-> date, attached |-> "data" \in DOMAIN parts, parts |-> parts]

McEmpty == [from |-> "", to |-> {}, subject |-> "", reply |-> FALSE, date |-> 0,
            attached |-> FALSE, parts |-> << >>]

(* A mail with a table and a text without name; a reply, that no handler   *)
(* takes; a mail with a table of the same name, that is too late for the   *)
(* first handler.                                                          *)
McBox ==
    << <<MailOf("pi", 2, FALSE, "text" :> PartOf("", "b1") @@ "data" :> PartOf("t", "b2"))>>,
       <<MailOf("pi", 2, TRUE, "text" :> PartOf("", "b1")),
         MailOf("pi", 5, FALSE, "data" :> PartOf("t", "b1"))>> >>

McHandlers ==
    << [maildir |-> "m", prefix |-> "p",
        predicate |-> [from |-> Only("pi"), to |-> Only("ops"), subject |-> Whoever,
                       noreply |-> TRUE, starts |-> 1, ends |-> 3, attachment |-> TRUE],
        includes |-> << [types |-> <<"html", "text">>, names |-> {"", "t"}],
                        [types |-> <<"data">>, names |-> {"t"}],
                        [types |-> <<"text">>, names |-> {"t"}] >>],
       [maildir |-> "m", prefix |-> "q",
        predicate |-> [from |-> Not("x"), to |-> Whoever, subject |-> Only("data"),
                       noreply |-> TRUE, starts |-> 0, ends |-> 0, attachment |-> FALSE],
        includes |-> << [types |-> <<"data">>, names |-> {"t"}] >>],
       [maildir |-> "m", prefix |-> "q",
        predicate |-> [from |-> Only(""), to |-> Whoever, subject |-> Whoever,
                       noreply |-> FALSE, starts |-> 0, ends |-> 0, attachment |-> FALSE],
        includes |-> << [types |-> <<"data">>, names |-> {"t"}] >>] >>
============================================================================
