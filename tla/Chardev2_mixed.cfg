SPECIFICATION Spec
CONSTANTS
    p1 = p1
    r1 = r1
    Programs = {p1}
    Raw = {r1}
    Parties = {{p1, r1}}
    Chars = {1, 2}
    Texts <- MCTexts
    Positions = {1, 3}
    BUF_LEN = 2
INVARIANTS
    GetReturnsLastSet
