-------------------------- MODULE MCKdefVariables --------------------------
(***************************************************************************)
(* Small instances of KdefVariables for TLC.                               *)
(***************************************************************************)
EXTENDS KdefVariables, FiniteSets

CONSTANTS base, other, typed, importing, reversed, nested, dangling, missing,
          x, web, tagA, tagB, inFile, inVars,
          word, numeral, one, two, strWord, strNumeral, given

String(default)  == [type |-> "string", allowed |-> {}, default |-> default]
Enum(default)    == [type |-> "string", allowed |-> {word}, default |-> default]
Number(default)  == [type |-> "number", allowed |-> {}, default |-> default]
List(default)    == [type |-> "structured", allowed |-> {}, default |-> default]

MCDeclares == [f \in File |-> [v \in Variable |->
    CASE f = base -> String(one) [] f = other -> Number(None) [] f = typed -> Enum(two)
      [] f = reversed -> List(one) [] OTHER -> None]]

MCImports == [f \in File |->
    CASE f = importing -> <<base, other>> [] f = reversed -> <<other, typed>>
      [] f = nested -> <<importing>> [] f = dangling -> <<base, missing>> [] OTHER -> <<>>]

MCDefaultsOf == [f \in File |->
    CASE f = base -> inFile [] f = typed -> inVars [] OTHER -> None]

MCConverted == [t \in {"string", "number", "bool"} |-> [raw \in Text |->
    CASE t = "string" -> IF raw = word THEN strWord ELSE strNumeral
      [] t = "number" -> IF raw = numeral THEN two ELSE None
      [] t = "bool"   -> None]]

NoImages == [l \in Level |-> [i \in Image |-> None]]

NoValues == [v \in Variable |-> None]

\* Every choice of variable files, and of --set and --values for one variable.
VariableProjects ==
    [vars: [Level -> File \cup {None}],
     varsFrom: {<<>>} \cup {<<f>> : f \in {base, typed, missing}},
     set: {[v \in Variable |-> raw] : raw \in Text \cup {None}},
     values: {NoValues, [v \in Variable |-> given], Unreadable},
     images: {NoImages}]

\* Every choice of images blocks, around one variable file.
ImageProjects ==
    [vars: {[l \in Level |-> IF l = 1 THEN base ELSE None]},
     varsFrom: {<<>>},
     set: {NoValues},
     values: {NoValues},
     images: [Level -> ImageTable \cup {Unreadable}]]

MCProject == VariableProjects \cup ImageProjects
=============================================================================
