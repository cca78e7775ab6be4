SPECIFICATION Spec
CONSTANTS
    v1 = v1
    v2 = v2
    Configured = {serverID}
    Derived = {iplist}
    UserEntered = {password, firstcn}
    Compared = {iplist}
    Passwords = {password}
    FirstCN = firstcn
    Value = {v1, v2}
    Empty = Empty
    NotAsked = NotAsked
    Answers <- MCAnswers
    Default <- MCDefault
    XmlVersion <- MCXmlVersion
    Custom <- MCCustom
INVARIANTS TypeOK ProvidedKept ChangedExact CreateAnswered AnswerKept
PROPERTIES PasswordsWiped UpdateClearsSeen Promise
