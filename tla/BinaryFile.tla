----------------------------- MODULE BinaryFile -----------------------------
(***************************************************************************)
(* src/tools/fv1_tools.h and .cc, src/src/fv1/fv1_bank.h: the file that a  *)
(* tool takes its program from.                                            *)
(*                                                                         *)
(* A file is one program, a bank of kPrograms, or a Dervish bank, which    *)
(* has a BankInfo behind the programs.  Only its length tells them apart.  *)
(* It is read by a single read(), from a file or from a pipe.              *)
(*                                                                         *)
(* Lengths are in bytes; what the bytes are is told by the word.           *)
(***************************************************************************)
EXTENDS Integers

CONSTANTS
  Word,           \* the words of a program
  ZeroWord,       \* the word whose bytes are all 0
  kWordSize,      \* 4: bytes of a word
  kProgramWords,  \* 128: words of a program
  kPrograms,      \* 8: programs in a bank
  kInfoSize       \* 693: sizeof(BankInfo)

ASSUME FileAssumption ==
  /\ ZeroWord \in Word
  /\ kWordSize \in Nat \ {0} /\ kProgramWords \in Nat \ {0}
  /\ kPrograms \in Nat \ {0} /\ kInfoSize \in Nat \ {0}

kProgramSize == kProgramWords * kWordSize
kBankSize == kPrograms * kProgramSize
kDervishBankSize == kBankSize + kInfoSize

\* The whole words of the buffer, and of a file as far as a buffer can hold it.
Slot == 0 .. (kDervishBankSize \div kWordSize)

\* What a tool reads from: piped, it comes in pieces.
Input == [piped : BOOLEAN, size : Nat, words : [Slot -> Word]]

VARIABLES
  contents,       \* buffer_ of the BinaryFile
  length_

-----------------------------------------------------------------------------
\* The results of read(fd, buffer_, sizeof(buffer_)).  A file delivers all
\* that fits, a pipe what has arrived so far; the end of the file, an error
\* and a file that cannot be opened are all a length of 0.
BytesRead(input) ==
  LET most == IF input.size < kDervishBankSize THEN input.size ELSE kDervishBankSize
  IN  {0, most} \cup (IF input.piped THEN 1 .. most ELSE {})

\* BinaryFile::Read.  Behind length_ the buffer is 0, as it was constructed; a
\* word that arrived in part is some word or other.
Read(input) ==
  \E n \in BytesRead(input), part \in Word :
    /\ n % kWordSize = 0 => part = ZeroWord
    /\ length_' = n
    /\ contents' = [i \in Slot |->
                      IF (i + 1) * kWordSize <= n THEN input.words[i]
                      ELSE IF i * kWordSize >= n THEN ZeroWord ELSE part]

\* Definitions named ...Mistake are not the code: each is a slip that some run
\* must notice when it replaces the definition below it.
LengthMistake == length_ >= kProgramSize

valid_length ==
  \/ length_ \in {kProgramSize, kBankSize}
  \/ length_ >= kDervishBankSize

\* program(index) is a null pointer from the end of the file on.
HasProgram(index) == index * kProgramSize < length_

ProgramAt(index) ==
  [i \in 0 .. kProgramWords - 1 |-> contents[index * kProgramWords + i]]
=============================================================================
