------------------------------ MODULE MCWizard -------------------------------
(* A small database for the wizard: two tables of one name in two schemas,  *)
(* and one whose columns differ only in what a key does not keep.           *)
EXTENDS Wizard, TLC

Column3(name, mask, format) == [name |-> name, mask |-> mask, format |-> format]

MCSchema ==
    << [id |-> "dbo.Orders", name |-> <<"orders">>,
        columns |-> << Column3(<<"id">>, "", ""),
                       Column3(<<"mail">>, "mask:email", "format:date") >>],
       [id |-> "dbo.Empty", name |-> <<"empty">>, columns |-> <<>>],
       [id |-> "sales.Orders", name |-> <<"orders">>,
        columns |-> << Column3(<<"note">>, "", ""),
                       Column3(<<"note", " ", "2">>, "", ""),
                       Column3(<<"note", "#">>, "", "") >>] >>

MCPart == STRING

MCSeparator == {" ", "#"}

\* No list of names here is longer than three.
MCitoa == [i \in 2 .. 4 |-> ToString(i)]

Nothing == [entities |-> <<>>, tools |-> {}]

\* A manifest written by hand: a filter, and a key of its own.
ByHand ==
    [entities |-> [e \in {<<"sales">>} |->
        [table |-> "dbo.Orders",
         fields |-> [f \in {<<"no">>, <<"contact">>} |->
            IF f = <<"no">> THEN [column |-> <<"id">>, expression |-> ""]
            ELSE [column |-> <<"mail">>, expression |-> "mask:email"]]]],
     tools |-> { [name |-> <<"find", <<"contact">>>>, kind |-> "query", entity |-> <<"sales">>,
                  select |-> {<<"contact">>}, filters |-> {<<"no">>}] }]

MCInitial == {Nothing, ByHand}

MCMask == {"mask:email"}

MCExpression == MCMask \cup {"", "format:date"}

\* The assistant says nothing, or leaves a masked column as it is and masks
\* another, or gives the masked one a format.
MCAdvice ==
    {{}, {[table |-> "dbo.Orders", column |-> <<"mail">>, expression |-> ""],
          [table |-> "sales.Orders", column |-> <<"note">>, expression |-> "mask:email"]},
         {[table |-> "dbo.Orders", column |-> <<"mail">>, expression |-> "format:date"]}}
=============================================================================
